---- MODULE Spec2Model ----
(***************************************************************************)
(* Model of the Marshall Stanmore II bridge.                               *)
(*   marshallstanmore2/ble.py: the five callback registries of             *)
(*   MarshallStanmore2, the notification handlers that dispatch to them,   *)
(*   the media-info reassembler, connecting, and the public operations.    *)
(*   marshallstanmore2/mqtt.py: the command router MqttControl.            *)
(*                                                                         *)
(* An OrderedDict is a sequence of [id, cb] records in insertion order.    *)
(* A bytes object is a sequence of integers 0..255, a str a sequence of    *)
(* code points; Python's 0-based positions are kept in the helpers         *)
(* (bytes_index, Slice).  A topic is the sequence of its levels.           *)
(***************************************************************************)
EXTENDS Integers, Sequences, FiniteSets, TLC

VARIABLES
    callbacks,      \* attr name -> OrderedDict[int, Callable]
    ret,            \* outcome of the last operation: what it returned or raised
    invoked,        \* the callback invocations made by the last operation, in order
    issued,         \* history: attr name -> the IDs register has returned so far
    media_info_buffer,  \* self._media_info_buffer (its getvalue())
    received,       \* history: concatenation of every media-info chunk received
    appended,       \* history: the buffer right after the last chunk was written
    since_attempt,  \* history: the chunks received after the last handling attempt
    message,        \* history: since_attempt as it was when the last chunk had arrived
    called,         \* the public operation or notification handler that ran last
    client,         \* the BleakClient: is_connected and the characteristics notifying
    device,         \* the speaker: the value held by each characteristic
    io,             \* the calls on the transport, the clock and the bus made by the
                    \* last operation, in order, or the notification delivered to it
    published,      \* the bus publishes made or scheduled by the last operation, in order
    allow_pairing,  \* MqttControl._allow_pairing
    running,        \* MqttControl._handle_messages is taking messages from the bus
    inbox,          \* self._mqtt_client.messages: the messages that arrived from the
                    \* bus and were not taken yet, in order
    handling        \* the calls of _handle_command suspended in a settle delay

vars == <<callbacks, ret, invoked, issued, media_info_buffer, received, appended,
          since_attempt, message, called, client, device, io, published, allow_pairing,
          running, inbox, handling>>

----------------------------------------------------------------------------
(* Bounds *)

MaxId == 3          \* register is not explored beyond this ID
MaxMediaId == 2     \* register is not explored beyond this ID while chunks are fed
MaxStream == 36     \* total number of media-info bytes received
MaxFacadeRegs == 2  \* registrations explored over the five registries together
MaxShiftedBands == 4  \* bands of a preset, from the lowest, that are moved off the preset
MaxInbox == 2         \* messages waiting in the queue of the bus client
MaxDeviceRegs == 1  \* status handlers registered while the facade operations are explored

----------------------------------------------------------------------------
(* The five registries of the facade, by attribute name *)

Attrs == {"_disconnect_callbacks", "_status_callbacks",
          "_volume_change_callbacks", "_equalizer_callbacks",
          "_media_info_callbacks"}

\* Handlers a client can register: one that returns, one that raises.
\* MqttControl._ble_disconnect_callback raises SystemExit.
Handlers == {"h_return", "h_raise"}

Raises(cb) == cb \in {"h_raise", "_ble_disconnect_callback"}

Volumes == {0, 32}

----------------------------------------------------------------------------
(* OrderedDict helpers *)

Keys(d) == {d[i].id : i \in 1..Len(d)}

\* callback_dict[callback_id] = callback
DictSet(d, k, v) ==
    IF k \in Keys(d)
    THEN [i \in 1..Len(d) |-> IF d[i].id = k THEN [id |-> k, cb |-> v] ELSE d[i]]
    ELSE Append(d, [id |-> k, cb |-> v])

\* (mutation of DictDel: callback_dict.popitem(), which drops the last entry)
DictDel_popitem(d, k) == SubSeq(d, 1, Len(d) - 1)

\* del callback_dict[callback_id], for a key that is present
DictDel(d, k) == SelectSeq(d, LAMBDA e : e.id # k)

----------------------------------------------------------------------------
(* _register_callback / _cancel_callback *)

\* (mutation of NextCallbackId: len(callback_dict) + 1)
NextCallbackId_len(d) == Len(d) + 1

\* next(reversed(callback_dict)) + 1, or 1 on StopIteration
NextCallbackId(d) == IF Len(d) = 0 THEN 1 ELSE d[Len(d)].id + 1

register_callback(attr, callback) ==
    LET callback_dict == callbacks[attr]
        callback_id == NextCallbackId(callback_dict)
    IN  /\ callbacks' = [callbacks EXCEPT ![attr] = DictSet(callback_dict, callback_id, callback)]
        /\ ret' = [op |-> "register", attr |-> attr, value |-> callback_id, exc |-> "none",
                   handled |-> FALSE]
        /\ issued' = [issued EXCEPT ![attr] = @ \cup {callback_id}]
        /\ invoked' = <<>>
        /\ io' = <<>>
        /\ published' = <<>>
        /\ UNCHANGED <<media_info_buffer, received, appended, since_attempt, message,
                       client, device, allow_pairing, running,
                   inbox, handling>>

\* (mutation of CancelResult: callback_dict.pop(callback_id, None), which
\* swallows the missing key)
CancelResult_pop(callback_dict, callback_id) ==
    [dict |-> SelectSeq(callback_dict, LAMBDA e : e.id # callback_id), exc |-> "none"]

\* try: del callback_dict[callback_id]; except KeyError: raise InvalidCallbackID
CancelResult(callback_dict, callback_id) ==
    IF callback_id \in Keys(callback_dict)
    THEN [dict |-> DictDel(callback_dict, callback_id), exc |-> "none"]
    ELSE [dict |-> callback_dict, exc |-> "InvalidCallbackID"]

cancel_callback(attr, callback_id) ==
    LET r == CancelResult(callbacks[attr], callback_id)
    IN  /\ callbacks' = [callbacks EXCEPT ![attr] = r.dict]
        /\ ret' = [op |-> "cancel", attr |-> attr, value |-> callback_id, exc |-> r.exc,
                   handled |-> FALSE]
        /\ invoked' = <<>>
        /\ io' = <<>>
        /\ published' = <<>>
        /\ UNCHANGED <<issued, media_info_buffer, received, appended, since_attempt, message,
                       client, device, allow_pairing, running,
                   inbox, handling>>

register_disconnect_callback(callback) ==
    /\ called' = "register_disconnect_callback"
    /\ register_callback("_disconnect_callbacks", callback)

cancel_disconnect_callback(callback_id) ==
    /\ called' = "cancel_disconnect_callback"
    /\ cancel_callback("_disconnect_callbacks", callback_id)

register_volume_callback(callback) ==
    /\ called' = "register_volume_callback"
    /\ register_callback("_volume_change_callbacks", callback)

cancel_volume_callback(callback_id) ==
    /\ called' = "cancel_volume_callback"
    /\ cancel_callback("_volume_change_callbacks", callback_id)

register_status_callback(callback) ==
    /\ called' = "register_status_callback"
    /\ register_callback("_status_callbacks", callback)

\* (mutation of cancel_status_callback: it cancels in the volume registry)
cancel_status_callback_volume(callback_id) ==
    /\ called' = "cancel_status_callback"
    /\ cancel_callback("_volume_change_callbacks", callback_id)

cancel_status_callback(callback_id) ==
    /\ called' = "cancel_status_callback"
    /\ cancel_callback("_status_callbacks", callback_id)

register_equalizer_callback(callback) ==
    /\ called' = "register_equalizer_callback"
    /\ register_callback("_equalizer_callbacks", callback)

cancel_equalizer_callback(callback_id) ==
    /\ called' = "cancel_equalizer_callback"
    /\ cancel_callback("_equalizer_callbacks", callback_id)

register_media_info_callback(callback) ==
    /\ called' = "register_media_info_callback"
    /\ register_callback("_media_info_callbacks", callback)

cancel_media_info_callback(callback_id) ==
    /\ called' = "cancel_media_info_callback"
    /\ cancel_callback("_media_info_callbacks", callback_id)


----------------------------------------------------------------------------
(* typings.py: EqProfile, EqPreset, AudioSource, PlayStatus, Status and the
   code tables.  A str is a sequence of code points. *)

\* (mutation of EqProfile: __post_init__ checks nothing)
EqProfile_unchecked(args) ==
    IF Len(args) # 5 THEN [exc |-> "TypeError", profile |-> <<>>]
    ELSE [exc |-> "none",
          profile |-> [hz160 |-> args[1], hz400 |-> args[2], hz1000 |-> args[3],
                       hz2500 |-> args[4], hz6250 |-> args[5]]]

\* EqProfile(*args): TypeError unless five arguments, ValueError from
\* __post_init__ unless every band is within 0 and 10
EqProfile(args) ==
    IF Len(args) # 5 THEN [exc |-> "TypeError", profile |-> <<>>]
    ELSE IF \E i \in 1..5 : ~(0 <= args[i] /\ args[i] <= 10)
    THEN [exc |-> "ValueError", profile |-> <<>>]
    ELSE [exc |-> "none",
          profile |-> [hz160 |-> args[1], hz400 |-> args[2], hz1000 |-> args[3],
                       hz2500 |-> args[4], hz6250 |-> args[5]]]

\* EqProfile.__iter__: dataclasses.astuple
astuple(profile) ==
    <<profile.hz160, profile.hz400, profile.hz1000, profile.hz2500, profile.hz6250>>

EqPresetNames == {"FLAT", "ROCK", "METAL", "POP", "HIPHOP", "ELECTRONIC", "JAZZ"}

EqPresetValue(member) ==
    CASE member = "FLAT" -> EqProfile(<<5, 5, 5, 5, 5>>).profile
      [] member = "ROCK" -> EqProfile(<<8, 6, 3, 5, 7>>).profile
      [] member = "METAL" -> EqProfile(<<8, 3, 5, 7, 8>>).profile
      [] member = "POP" -> EqProfile(<<6, 7, 8, 4, 5>>).profile
      [] member = "HIPHOP" -> EqProfile(<<8, 7, 6, 5, 5>>).profile
      [] member = "ELECTRONIC" -> EqProfile(<<7, 4, 4, 7, 6>>).profile
      [] member = "JAZZ" -> EqProfile(<<4, 7, 5, 4, 5>>).profile

\* (mutation of EqPresetOf: a member is found by its lowest band alone)
EqPresetOf_hz160(profile) ==
    IF \E m \in EqPresetNames : EqPresetValue(m).hz160 = profile.hz160
    THEN [exc |-> "none",
          preset |-> CHOOSE m \in EqPresetNames : EqPresetValue(m).hz160 = profile.hz160]
    ELSE [exc |-> "ValueError", preset |-> "None"]

\* EqPreset(profile): the member whose value equals profile, or ValueError
EqPresetOf(profile) ==
    IF \E m \in EqPresetNames : EqPresetValue(m) = profile
    THEN [exc |-> "none", preset |-> CHOOSE m \in EqPresetNames : EqPresetValue(m) = profile]
    ELSE [exc |-> "ValueError", preset |-> "None"]

AudioSourceNames == {"BLUETOOTH", "AUX", "RCA"}

\* member.name, as a str
EnumName(member) ==
    CASE member = "FLAT" -> <<70, 76, 65, 84>>
      [] member = "ROCK" -> <<82, 79, 67, 75>>
      [] member = "METAL" -> <<77, 69, 84, 65, 76>>
      [] member = "POP" -> <<80, 79, 80>>
      [] member = "HIPHOP" -> <<72, 73, 80, 72, 79, 80>>
      [] member = "ELECTRONIC" -> <<69, 76, 69, 67, 84, 82, 79, 78, 73, 67>>
      [] member = "JAZZ" -> <<74, 65, 90, 90>>
      [] member = "BLUETOOTH" -> <<66, 76, 85, 69, 84, 79, 79, 84, 72>>
      [] member = "AUX" -> <<65, 85, 88>>
      [] member = "RCA" -> <<82, 67, 65>>
      [] member = "PLAYING" -> <<80, 76, 65, 89, 73, 78, 71>>
      [] member = "PAUSED" -> <<80, 65, 85, 83, 69, 68>>
      [] member = "STOPPED" -> <<83, 84, 79, 80, 80, 69, 68>>

StatusIndex == [SOURCE |-> 0, PLAY_STATUS |-> 1, INTERATION_SOUND |-> 3]

AUD_SRC_CMD_MAPPING == [BLUETOOTH |-> 12, AUX |-> 13, RCA |-> 14]

CMD_MAPPING == [pause |-> 0, play |-> 1, previous |-> 2, next |-> 3,
                disable_interation_sound |-> 16, enable_interation_sound |-> 17]

INT_PLAY_STATUS_MAPPING == (0 :> "PLAYING") @@ (1 :> "PAUSED") @@ (2 :> "STOPPED")

INT_AUD_SRC_MAPPING == (3 :> "BLUETOOTH") @@ (1 :> "AUX") @@ (4 :> "RCA")

Status(audio_source, play_status, interaction_sound_enabled) ==
    [audio_source |-> audio_source, play_status |-> play_status,
     interaction_sound_enabled |-> interaction_sound_enabled]

----------------------------------------------------------------------------
(* str helpers *)

\* str(n) for an integer n
RECURSIVE DigitsOf(_)
DigitsOf(n) == IF n < 10 THEN <<48 + n>> ELSE DigitsOf(n \div 10) \o <<48 + (n % 10)>>

str(n) == IF n < 0 THEN <<45>> \o DigitsOf(0 - n) ELSE DigitsOf(n)

\* str.lower() / str.upper() on the ASCII letters
lower(text) == [i \in 1..Len(text) |-> IF text[i] \in 65..90 THEN text[i] + 32 ELSE text[i]]

upper(text) == [i \in 1..Len(text) |-> IF text[i] \in 97..122 THEN text[i] - 32 ELSE text[i]]

\* " ".join(parts)
RECURSIVE join_space(_)
join_space(parts) ==
    IF Len(parts) = 0 THEN <<>>
    ELSE IF Len(parts) = 1 THEN parts[1]
    ELSE parts[1] \o <<32>> \o join_space(Tail(parts))

----------------------------------------------------------------------------
(* mqtt.py: topics, publishing and the callbacks MqttControl registers *)

\* MqttControl.topic with the default prefix: a topic is the sequence of its
\* levels
topic(topic_name) == <<"stanmore2">> \o topic_name

Publish(topic_name, payload, scheduled) ==
    [topic |-> topic(topic_name), payload |-> payload, scheduled |-> scheduled]

preset_to_str(preset) == IF preset # "None" THEN lower(EnumName(preset)) ELSE <<99, 117, 115, 116, 111, 109>>

profile_to_str(eq_profile) ==
    join_space([i \in 1..5 |-> str(astuple(eq_profile)[i])])

publish_eq_preset(eq_preset, scheduled) ==
    <<Publish(<<"info", "eq_preset">>, preset_to_str(eq_preset), scheduled)>>

publish_individual_eq(hz_str, value, scheduled) ==
    Publish(<<"info", "eq_profile", hz_str \o "hz">>, str(value), scheduled)

publish_eq_profile(eq_profile, scheduled) ==
    <<Publish(<<"info", "eq_profile">>, profile_to_str(eq_profile), scheduled),
      publish_individual_eq("160", eq_profile.hz160, scheduled),
      publish_individual_eq("400", eq_profile.hz400, scheduled),
      publish_individual_eq("1000", eq_profile.hz1000, scheduled),
      publish_individual_eq("2500", eq_profile.hz2500, scheduled),
      publish_individual_eq("6250", eq_profile.hz6250, scheduled)>>

publish_status(status, scheduled) ==
    <<Publish(<<"info", "play_status">>, lower(EnumName(status.play_status)), scheduled),
      Publish(<<"info", "audio_source">>, lower(EnumName(status.audio_source)), scheduled),
      Publish(<<"info", "interaction_sound_enabled">>,
              str(IF status.interaction_sound_enabled THEN 1 ELSE 0), scheduled)>>

\* The publishes of the tasks one callback invocation creates with _add_task
ble_callback(call) ==
    CASE call.cb = "_ble_volume_callback" ->
           <<Publish(<<"info", "volume">>, str(call.arg), TRUE)>>
      [] call.cb = "_ble_status_callback" -> publish_status(call.arg, TRUE)
      [] call.cb = "_ble_equalizer_callback" ->
           publish_eq_profile(call.arg, TRUE)
           \o publish_eq_preset(EqPresetOf(call.arg).preset, TRUE)
      [] call.cb = "_ble_media_info_callback" ->
           <<Publish(<<"info", "media", "title">>, call.arg.title, TRUE),
             Publish(<<"info", "media", "artist">>, call.arg.artist, TRUE),
             Publish(<<"info", "media", "album">>, call.arg.album, TRUE)>>
      [] OTHER -> <<>>

RECURSIVE TasksOf(_)
TasksOf(calls) ==
    IF calls = <<>> THEN <<>> ELSE ble_callback(Head(calls)) \o TasksOf(Tail(calls))

----------------------------------------------------------------------------
(* Dispatch: "for callback in d.values(): callback(args)" *)

\* The invocations the loop makes over d[i..]: it calls each handler in
\* insertion order and stops at the first one that raises, because the
\* exception leaves the loop.
RECURSIVE CallFrom(_, _, _)
CallFrom(d, i, arg) ==
    IF i > Len(d) THEN <<>>
    ELSE LET call == [id |-> d[i].id, cb |-> d[i].cb, arg |-> arg]
         IN  IF Raises(d[i].cb) THEN <<call>>
             ELSE <<call>> \o CallFrom(d, i + 1, arg)

\* (mutation of CallAll: the loop starts at the second entry)
CallAll_skip(d, arg) == CallFrom(d, 2, arg)

CallAll(d, arg) == CallFrom(d, 1, arg)

LoopRaised(d) == \E i \in 1..Len(d) : Raises(d[i].cb)

\* (mutation of on_volume_change: the notification waits for the command
\* in its settle delay)
on_volume_change_idle(data) ==
    LET d == callbacks["_volume_change_callbacks"]
    IN  /\ handling = <<>>
        /\ called' = "_on_volume_change"
        /\ invoked' = CallAll(d, data[1])
        /\ published' = TasksOf(CallAll(d, data[1]))
        /\ io' = <<>>
        /\ ret' = [op |-> "dispatch", attr |-> "_volume_change_callbacks", value |-> data[1],
                   exc |-> IF LoopRaised(d) THEN "HandlerRaised" ELSE "none",
                   handled |-> FALSE]
        /\ UNCHANGED <<callbacks, issued, media_info_buffer, received, appended,
                       since_attempt, message, client, device, allow_pairing, running,
                       inbox, handling>>

on_volume_change(data) ==
    LET d == callbacks["_volume_change_callbacks"]
    IN  /\ called' = "_on_volume_change"
        /\ invoked' = CallAll(d, data[1])
        /\ published' = TasksOf(CallAll(d, data[1]))
        /\ io' = <<>>
        /\ ret' = [op |-> "dispatch", attr |-> "_volume_change_callbacks", value |-> data[1],
                   exc |-> IF LoopRaised(d) THEN "HandlerRaised" ELSE "none",
                   handled |-> FALSE]
        /\ UNCHANGED <<callbacks, issued, media_info_buffer, received, appended,
                       since_attempt, message, client, device, allow_pairing, running,
                   inbox, handling>>

on_disconnect ==
    LET d == callbacks["_disconnect_callbacks"]
    IN  /\ called' = "_on_disconnect"
        /\ invoked' = CallAll(d, "no_args")
        /\ published' = <<>>
        /\ io' = <<>>
        /\ ret' = [op |-> "dispatch", attr |-> "_disconnect_callbacks", value |-> "no_args",
                   exc |-> IF LoopRaised(d) THEN "HandlerRaised" ELSE "none",
                   handled |-> FALSE]
        /\ UNCHANGED <<callbacks, issued, media_info_buffer, received, appended,
                       since_attempt, message, client, device, allow_pairing, running,
                   inbox, handling>>

----------------------------------------------------------------------------
(* bytes helpers (positions are 0-based, as in Python) *)

\* data[-n:]
LastBytes(data, n) ==
    IF Len(data) <= n THEN data ELSE SubSeq(data, Len(data) - n + 1, Len(data))

\* data[a:b] for 0 <= a: the slice is cut at the end of data
Slice(data, a, b) ==
    LET hi == IF b > Len(data) THEN Len(data) ELSE b
    IN  IF a >= hi THEN <<>> ELSE SubSeq(data, a + 1, hi)

Occurrences(data, sub) ==
    {p \in 0..(Len(data) - Len(sub)) : SubSeq(data, p + 1, p + Len(sub)) = sub}

\* data.index(sub): the lowest position of sub; bytes.index raises
\* ValueError when sub does not occur (it never returns -1)
bytes_index(data, sub) ==
    LET occ == Occurrences(data, sub)
    IN  IF occ = {} THEN [exc |-> "ValueError", pos |-> 0]
        ELSE [exc |-> "none", pos |-> CHOOSE p \in occ : \A q \in occ : p <= q]

IsCont(b) == b \in 128..191

\* bytes.decode(): strict UTF-8 to a sequence of code points
RECURSIVE utf8_decode(_)
utf8_decode(b) ==
    IF b = <<>> THEN [exc |-> "none", text |-> <<>>]
    ELSE
    LET c == b[1]
        n == Len(b)
        width == IF c < 128 THEN 1
                 ELSE IF c \in 194..223 /\ n >= 2 /\ IsCont(b[2]) THEN 2
                 ELSE IF /\ c \in 224..239 /\ n >= 3 /\ IsCont(b[2]) /\ IsCont(b[3])
                         /\ (c = 224 => b[2] >= 160) /\ (c = 237 => b[2] <= 159) THEN 3
                 ELSE IF /\ c \in 240..244 /\ n >= 4
                         /\ IsCont(b[2]) /\ IsCont(b[3]) /\ IsCont(b[4])
                         /\ (c = 240 => b[2] >= 144) /\ (c = 244 => b[2] <= 143) THEN 4
                 ELSE 0
        cp == CASE width = 1 -> c
                [] width = 2 -> (c - 192) * 64 + (b[2] - 128)
                [] width = 3 -> (c - 224) * 4096 + (b[2] - 128) * 64 + (b[3] - 128)
                [] width = 4 -> (c - 240) * 262144 + (b[2] - 128) * 4096
                                + (b[3] - 128) * 64 + (b[4] - 128)
                [] OTHER -> 0
    IN  IF width = 0 THEN [exc |-> "UnicodeDecodeError", text |-> <<>>]
        ELSE LET rest == utf8_decode(SubSeq(b, width + 1, n))
             IN  IF rest.exc # "none" THEN rest
                 ELSE [exc |-> "none", text |-> <<cp>> \o rest.text]

----------------------------------------------------------------------------
(* The BleakClient and the speaker behind it *)

Characteristics == {"volume_characteristic", "control_characteristic",
                    "led_brightness_characteristic", "device_name_characteristic",
                    "eq_characteristic", "pairing_characteristic",
                    "media_info_characteristic"}

\* The value each characteristic holds when the speaker is first reached
InitialDevice ==
    [c \in Characteristics |->
        CASE c = "volume_characteristic" -> <<16>>
          [] c = "control_characteristic" -> <<3, 1, 255, 1>>
          [] c = "led_brightness_characteristic" -> <<70>>
          [] c = "device_name_characteristic" -> <<1, 1, 83>>
          [] c = "eq_characteristic" -> <<5, 5, 5, 5, 5>>
          [] OTHER -> <<>>]

\* What the speaker does with a value written to a characteristic: it holds
\* the value, and a command byte written to the control characteristic
\* shows in the status it reports afterwards
DeviceAfterWrite(dev, char, data) ==
    LET ControlAfter(control, cmd_int) ==
            CASE cmd_int = CMD_MAPPING.pause -> [control EXCEPT ![2] = 1]
              [] cmd_int = CMD_MAPPING.play -> [control EXCEPT ![2] = 0]
              [] cmd_int = AUD_SRC_CMD_MAPPING.BLUETOOTH -> [control EXCEPT ![1] = 3]
              [] cmd_int = AUD_SRC_CMD_MAPPING.AUX -> [control EXCEPT ![1] = 1]
              [] cmd_int = AUD_SRC_CMD_MAPPING.RCA -> [control EXCEPT ![1] = 4]
              [] cmd_int = CMD_MAPPING.disable_interation_sound ->
                   [control EXCEPT ![4] = 0]
              [] cmd_int = CMD_MAPPING.enable_interation_sound ->
                   [control EXCEPT ![4] = 1]
              [] OTHER -> control
    IN  CASE char = "control_characteristic" ->
               [dev EXCEPT ![char] = ControlAfter(dev[char], data[1])]
          [] char = "pairing_characteristic" -> dev
          [] OTHER -> [dev EXCEPT ![char] = data]

IoCall(op, char, data) == [op |-> op, char |-> char, data |-> data]

\* await self.client.read_gatt_char(char): the call is logged with the value
\* it returned; it fails when there is no connected client
read_gatt_char(cl, dev, char) ==
    IF cl.is_connected
    THEN [exc |-> "none", value |-> dev[char], dev |-> dev,
          io |-> <<IoCall("read", char, dev[char])>>]
    ELSE [exc |-> "BleakError", value |-> <<>>, dev |-> dev,
          io |-> <<IoCall("read", char, <<>>)>>]

\* await self.client.write_gatt_char(char, data, response=True)
write_gatt_char(cl, dev, char, data) ==
    IF cl.is_connected
    THEN [exc |-> "none", value |-> "None", dev |-> DeviceAfterWrite(dev, char, data),
          io |-> <<IoCall("write", char, data)>>]
    ELSE [exc |-> "BleakError", value |-> "None", dev |-> dev,
          io |-> <<IoCall("write", char, data)>>]

\* An exception raised before any transport call
Raised(dev, exc) == [exc |-> exc, value |-> "None", dev |-> dev, io |-> <<>>]

----------------------------------------------------------------------------
(* ble.py: the operations of MarshallStanmore2 on a client cl and speaker dev *)

\* str.encode("utf-8")
RECURSIVE utf8_encode(_)
utf8_encode(text) ==
    IF text = <<>> THEN <<>>
    ELSE LET cp == text[1]
             head == IF cp < 128 THEN <<cp>>
                     ELSE IF cp < 2048 THEN <<192 + (cp \div 64), 128 + (cp % 64)>>
                     ELSE IF cp < 65536
                     THEN <<224 + (cp \div 4096), 128 + ((cp \div 64) % 64), 128 + (cp % 64)>>
                     ELSE <<240 + (cp \div 262144), 128 + ((cp \div 4096) % 64),
                            128 + ((cp \div 64) % 64), 128 + (cp % 64)>>
         IN  head \o utf8_encode(Tail(text))

\* (mutation of decode_status: the flag is read one byte earlier)
decode_status_third(data) ==
    IF Len(data) <= StatusIndex.SOURCE THEN [exc |-> "IndexError", status |-> "None"]
    ELSE IF data[StatusIndex.SOURCE + 1] \notin DOMAIN INT_AUD_SRC_MAPPING
    THEN [exc |-> "KeyError", status |-> "None"]
    ELSE IF Len(data) <= StatusIndex.PLAY_STATUS THEN [exc |-> "IndexError", status |-> "None"]
    ELSE IF data[StatusIndex.PLAY_STATUS + 1] \notin DOMAIN INT_PLAY_STATUS_MAPPING
    THEN [exc |-> "KeyError", status |-> "None"]
    ELSE IF Len(data) <= StatusIndex.INTERATION_SOUND
    THEN [exc |-> "IndexError", status |-> "None"]
    ELSE [exc |-> "none",
          status |-> Status(INT_AUD_SRC_MAPPING[data[StatusIndex.SOURCE + 1]],
                            INT_PLAY_STATUS_MAPPING[data[StatusIndex.PLAY_STATUS + 1]],
                            data[StatusIndex.INTERATION_SOUND] = 1)]

\* _decode_status: the two table lookups raise KeyError on an unknown code,
\* data[3] raises IndexError on a short value
decode_status(data) ==
    IF Len(data) <= StatusIndex.SOURCE THEN [exc |-> "IndexError", status |-> "None"]
    ELSE IF data[StatusIndex.SOURCE + 1] \notin DOMAIN INT_AUD_SRC_MAPPING
    THEN [exc |-> "KeyError", status |-> "None"]
    ELSE IF Len(data) <= StatusIndex.PLAY_STATUS THEN [exc |-> "IndexError", status |-> "None"]
    ELSE IF data[StatusIndex.PLAY_STATUS + 1] \notin DOMAIN INT_PLAY_STATUS_MAPPING
    THEN [exc |-> "KeyError", status |-> "None"]
    ELSE IF Len(data) <= StatusIndex.INTERATION_SOUND
    THEN [exc |-> "IndexError", status |-> "None"]
    ELSE [exc |-> "none",
          status |-> Status(INT_AUD_SRC_MAPPING[data[StatusIndex.SOURCE + 1]],
                            INT_PLAY_STATUS_MAPPING[data[StatusIndex.PLAY_STATUS + 1]],
                            data[StatusIndex.INTERATION_SOUND + 1] = 1)]

speaker_get_status(cl, dev) ==
    LET r == read_gatt_char(cl, dev, "control_characteristic")
        status == decode_status(r.value)
    IN  IF r.exc # "none" THEN r
        ELSE [r EXCEPT !.exc = status.exc, !.value = status.status]

speaker_set_volume(cl, dev, volume) ==
    IF ~(0 <= volume /\ volume <= 32) THEN Raised(dev, "InvalidVolume")
    ELSE write_gatt_char(cl, dev, "volume_characteristic", <<volume>>)

speaker_get_volume(cl, dev) ==
    LET r == read_gatt_char(cl, dev, "volume_characteristic")
    IN  IF r.exc # "none" THEN r ELSE [r EXCEPT !.value = r.value[1]]

send_command(cl, dev, cmd_int) ==
    write_gatt_char(cl, dev, "control_characteristic", <<cmd_int>>)

speaker_set_source(cl, dev, source) == send_command(cl, dev, AUD_SRC_CMD_MAPPING[source])

speaker_next(cl, dev) == send_command(cl, dev, CMD_MAPPING.next)

speaker_previous(cl, dev) == send_command(cl, dev, CMD_MAPPING.previous)

speaker_play(cl, dev) == send_command(cl, dev, CMD_MAPPING.play)

speaker_pause(cl, dev) == send_command(cl, dev, CMD_MAPPING.pause)

speaker_set_interaction_sound(cl, dev, enabled) ==
    LET action == IF enabled THEN "enable_interation_sound" ELSE "disable_interation_sound"
    IN  send_command(cl, dev, CMD_MAPPING[action])

speaker_set_led_brightness(cl, dev, brightness) ==
    IF ~(0 <= brightness /\ brightness <= 35) THEN Raised(dev, "InvalidLedBrightness")
    ELSE LET actual_brightness == brightness + 35
         IN  write_gatt_char(cl, dev, "led_brightness_characteristic", <<actual_brightness>>)

\* (mutation of speaker_get_led_brightness: the byte is returned as it is)
speaker_get_led_brightness_raw(cl, dev) ==
    LET r == read_gatt_char(cl, dev, "led_brightness_characteristic")
    IN  IF r.exc # "none" THEN r ELSE [r EXCEPT !.value = r.value[1]]

speaker_get_led_brightness(cl, dev) ==
    LET r == read_gatt_char(cl, dev, "led_brightness_characteristic")
    IN  IF r.exc # "none" THEN r ELSE [r EXCEPT !.value = r.value[1] - 35]

\* (mutation of speaker_set_device_name: the length checked is the number
\* of characters of the name)
speaker_set_device_name_chars(cl, dev, name) ==
    LET encoded == utf8_encode(name)
    IN  IF ~(0 < Len(name) /\ Len(name) <= 17) THEN Raised(dev, "InvalidDeviceName")
        ELSE write_gatt_char(cl, dev, "device_name_characteristic",
                             <<1, Len(encoded)>> \o encoded)

speaker_set_device_name(cl, dev, name) ==
    LET encoded == utf8_encode(name)
    IN  IF ~(0 < Len(encoded) /\ Len(encoded) <= 17) THEN Raised(dev, "InvalidDeviceName")
        ELSE write_gatt_char(cl, dev, "device_name_characteristic",
                             <<1, Len(encoded)>> \o encoded)

\* (mutation of speaker_get_device_name: only the first byte is skipped)
speaker_get_device_name_length(cl, dev) ==
    LET r == read_gatt_char(cl, dev, "device_name_characteristic")
        decoded == utf8_decode(Slice(r.value, 1, Len(r.value)))
    IN  IF r.exc # "none" THEN r
        ELSE [r EXCEPT !.exc = decoded.exc, !.value = decoded.text]

speaker_get_device_name(cl, dev) ==
    LET r == read_gatt_char(cl, dev, "device_name_characteristic")
        decoded == utf8_decode(Slice(r.value, 2, Len(r.value)))
    IN  IF r.exc # "none" THEN r
        ELSE [r EXCEPT !.exc = decoded.exc, !.value = decoded.text]

speaker_set_equaliser_profile(cl, dev, profile) ==
    write_gatt_char(cl, dev, "eq_characteristic", astuple(profile))

speaker_get_equaliser_profile(cl, dev) ==
    LET r == read_gatt_char(cl, dev, "eq_characteristic")
        made == EqProfile(r.value)
    IN  IF r.exc # "none" THEN r
        ELSE [r EXCEPT !.exc = made.exc, !.value = made.profile]

speaker_set_equaliser_preset(cl, dev, preset) ==
    speaker_set_equaliser_profile(cl, dev, EqPresetValue(preset))

speaker_get_equaliser_preset(cl, dev) ==
    LET r == speaker_get_equaliser_profile(cl, dev)
    IN  IF r.exc # "none" THEN r
        ELSE [r EXCEPT !.value = EqPresetOf(r.value).preset]

speaker_enter_pairing_mode(cl, dev) ==
    write_gatt_char(cl, dev, "pairing_characteristic", <<0>>)

----------------------------------------------------------------------------
(* Connecting: __aenter__ / __aexit__ *)

\* (mutation of Subscriptions: the equaliser is subscribed before the media
\* information)
Subscriptions_swapped == <<"control_characteristic", "volume_characteristic",
                           "eq_characteristic", "media_info_characteristic">>

\* The start_notify calls of __aenter__, in the order they are made
Subscriptions == <<"control_characteristic", "volume_characteristic",
                   "media_info_characteristic", "eq_characteristic">>

Disconnected == [is_connected |-> FALSE, notifying |-> <<>>]

\* __aenter__ when BleakClient.__aenter__ succeeds iff connect_ok and the
\* fail_at-th start_notify raises (0: none does).  The bare "except:" closes
\* the client and falls through to "return self".
AEnter(connect_ok, fail_at) ==
    LET connect == <<IoCall("connect", "none", <<>>)>>
        made == IF fail_at = 0 THEN Len(Subscriptions) ELSE fail_at
        starts == [i \in 1..made |-> IoCall("start_notify", Subscriptions[i], <<>>)]
    IN  IF ~connect_ok
        THEN [exc |-> "BleakError", client |-> Disconnected, io |-> connect]
        ELSE IF fail_at = 0
        THEN [exc |-> "none",
              client |-> [is_connected |-> TRUE, notifying |-> Subscriptions],
              io |-> connect \o starts]
        ELSE [exc |-> "none", client |-> Disconnected,
              io |-> connect \o starts \o <<IoCall("disconnect", "none", <<>>)>>]

aenter(connect_ok, fail_at) ==
    LET r == AEnter(connect_ok, fail_at)
    IN  /\ called' = "__aenter__"
        /\ client' = r.client
        /\ io' = r.io
        /\ ret' = [op |-> "facade", attr |-> "none", value |-> "self", exc |-> r.exc,
                   handled |-> FALSE]
        /\ invoked' = <<>>
        /\ published' = <<>>
        /\ UNCHANGED <<callbacks, issued, media_info_buffer, received, appended,
                       since_attempt, message, device, allow_pairing, running,
                   inbox, handling>>

aexit ==
    /\ called' = "__aexit__"
    /\ client' = Disconnected
    /\ io' = <<IoCall("disconnect", "none", <<>>)>>
    /\ ret' = [op |-> "facade", attr |-> "none", value |-> "None", exc |-> "none",
               handled |-> FALSE]
    /\ invoked' = <<>>
    /\ published' = <<>>
    /\ UNCHANGED <<callbacks, issued, media_info_buffer, received, appended,
                   since_attempt, message, device, allow_pairing, running,
                   inbox, handling>>

----------------------------------------------------------------------------
(* A public operation of the facade called on the current client and speaker *)

\* ret also keeps the arguments of the call
FacadeCall(name, args, r) ==
    /\ called' = name
    /\ ret' = [op |-> "facade", attr |-> "none", value |-> r.value, exc |-> r.exc,
               handled |-> FALSE, args |-> args]
    /\ io' = r.io
    /\ device' = r.dev
    /\ invoked' = <<>>
    /\ published' = <<>>
    /\ UNCHANGED <<callbacks, issued, media_info_buffer, received, appended,
                   since_attempt, message, client, allow_pairing, running,
                   inbox, handling>>

\* The speaker changes source, play state or interaction sound by itself
\* (its buttons, the phone that plays on it)
speaker_reports(data) ==
    /\ called' = "speaker"
    /\ device' = [device EXCEPT !["control_characteristic"] = data]
    /\ ret' = [op |-> "speaker", attr |-> "none", value |-> "None", exc |-> "none",
               handled |-> FALSE]
    /\ io' = <<>>
    /\ invoked' = <<>>
    /\ published' = <<>>
    /\ UNCHANGED <<callbacks, issued, media_info_buffer, received, appended,
                   since_attempt, message, client, allow_pairing, running,
                   inbox, handling>>

----------------------------------------------------------------------------
(* Payload parsing as MqttControl's handlers do it *)

\* str.strip of whitespace, as int does
RECURSIVE strip(_)
strip(text) ==
    IF text = <<>> THEN text
    ELSE IF Head(text) \in 9..13 \cup {32} THEN strip(Tail(text))
    ELSE IF text[Len(text)] \in 9..13 \cup {32} THEN strip(SubSeq(text, 1, Len(text) - 1))
    ELSE text

RECURSIVE DigitsValue(_)
DigitsValue(digits) ==
    IF digits = <<>> THEN 0
    ELSE LET last == digits[Len(digits)]
             front == SubSeq(digits, 1, Len(digits) - 1)
         IN  IF last = 95 THEN DigitsValue(front)
             ELSE DigitsValue(front) * 10 + (last - 48)

\* int(x) for a str or bytes x: surrounding whitespace, one optional sign,
\* decimal digits with single underscores between them; ValueError otherwise
int(text) ==
    LET body == strip(text)
        signed == body # <<>> /\ body[1] \in {43, 45}
        digits == IF signed THEN Tail(body) ELSE body
        well_formed ==
            /\ digits # <<>>
            /\ \A i \in 1..Len(digits) : digits[i] \in 48..57 \cup {95}
            /\ digits[1] # 95 /\ digits[Len(digits)] # 95
            /\ \A i \in 1..(Len(digits) - 1) : ~(digits[i] = 95 /\ digits[i + 1] = 95)
    IN  IF ~well_formed THEN [exc |-> "ValueError", value |-> 0]
        ELSE [exc |-> "none",
              value |-> IF signed /\ body[1] = 45 THEN 0 - DigitsValue(digits)
                        ELSE DigitsValue(digits)]

\* text.split(" ")
RECURSIVE split_space(_)
split_space(text) ==
    IF \A i \in 1..Len(text) : text[i] # 32 THEN <<text>>
    ELSE LET at == CHOOSE i \in 1..Len(text) :
                       text[i] = 32 /\ \A j \in 1..(i - 1) : text[j] # 32
         IN  <<SubSeq(text, 1, at - 1)>> \o split_space(SubSeq(text, at + 1, Len(text)))

\* EqPreset[name] / AudioSource[name]: lookup of a member by its name
MemberByName(names, name_str) ==
    IF \E m \in names : EnumName(m) = name_str
    THEN [exc |-> "none", member |-> CHOOSE m \in names : EnumName(m) = name_str]
    ELSE [exc |-> "KeyError", member |-> "None"]

----------------------------------------------------------------------------
(* mqtt.py: the command handlers.  A handler takes the run so far (client,
   speaker, the calls and publishes already made, the exception in flight)
   and returns the run after it. *)

\* await self._speaker.<operation>(...): r is what the operation gives on the
\* client and speaker of run
Await(run, r) ==
    IF run.exc # "none" THEN run
    ELSE [cl |-> run.cl, dev |-> r.dev, io |-> run.io \o r.io,
          published |-> run.published, exc |-> r.exc, value |-> r.value]

\* await asyncio.sleep(SLEEP_TIME_BEFORE_PUBLISHING_BACK)
sleep(run) ==
    IF run.exc # "none" THEN run
    ELSE [run EXCEPT !.io = @ \o <<IoCall("sleep", "none", <<>>)>>]

\* await self._publish(...) for each entry of pubs
publish(run, pubs) ==
    IF run.exc # "none" THEN run
    ELSE [run EXCEPT !.published = @ \o pubs,
                     !.io = @ \o [i \in 1..Len(pubs) |->
                                     IoCall("publish", "none", pubs[i].payload)]]

get_volume(run) ==
    LET r == Await(run, speaker_get_volume(run.cl, run.dev))
    IN  IF r.exc # "none" THEN r
        ELSE publish(r, <<Publish(<<"info", "volume">>, str(r.value), FALSE)>>)

\* (mutation of set_volume: the value is read back without the delay)
set_volume_eager(run, payload) ==
    LET decoded == utf8_decode(payload)
        volume == int(decoded.text)
    IN  IF decoded.exc # "none" \/ volume.exc # "none" THEN run
        ELSE LET r == get_volume(Await(run,
                          speaker_set_volume(run.cl, run.dev, volume.value)))
             IN  IF r.exc \in {"ValueError", "UnicodeDecodeError", "InvalidVolume"}
                 THEN [r EXCEPT !.exc = "none"] ELSE r

set_volume(run, payload) ==
    LET decoded == utf8_decode(payload)
        volume == int(decoded.text)
    IN  IF decoded.exc # "none" \/ volume.exc # "none" THEN run
        ELSE LET r == get_volume(sleep(Await(run,
                          speaker_set_volume(run.cl, run.dev, volume.value))))
             IN  IF r.exc \in {"ValueError", "UnicodeDecodeError", "InvalidVolume"}
                 THEN [r EXCEPT !.exc = "none"] ELSE r

get_eq_preset(run) ==
    LET r == Await(run, speaker_get_equaliser_preset(run.cl, run.dev))
    IN  IF r.exc # "none" THEN r ELSE publish(r, publish_eq_preset(r.value, FALSE))

get_eq_profile(run) ==
    LET r == Await(run, speaker_get_equaliser_profile(run.cl, run.dev))
    IN  IF r.exc # "none" THEN r ELSE publish(r, publish_eq_profile(r.value, FALSE))

set_eq_preset(run, name) ==
    LET decoded == utf8_decode(name)
        preset == MemberByName(EqPresetNames, upper(decoded.text))
    IN  IF decoded.exc # "none" \/ preset.exc # "none" THEN run
        ELSE get_eq_profile(get_eq_preset(sleep(Await(run,
                 speaker_set_equaliser_preset(run.cl, run.dev, preset.member)))))

set_eq_profile(run, eq_profile_bytes) ==
    LET decoded == utf8_decode(eq_profile_bytes)
        profile_str_split == split_space(decoded.text)
        eq_integers == [i \in 1..Len(profile_str_split) |-> int(profile_str_split[i])]
        profile == EqProfile([i \in 1..Len(eq_integers) |-> eq_integers[i].value])
    IN  IF decoded.exc # "none" THEN run
        ELSE IF Len(profile_str_split) # 5 THEN run
        ELSE IF \E i \in 1..5 : eq_integers[i].exc # "none" THEN run
        ELSE IF profile.exc # "none" THEN run
        ELSE get_eq_preset(get_eq_profile(sleep(Await(run,
                 speaker_set_equaliser_profile(run.cl, run.dev, profile.profile)))))

\* (mutation of set_individual_eq: the profile written is the flat one with
\* the band replaced)
set_individual_eq_flat(run, hz_str, value) ==
    LET read == Await(run, speaker_get_equaliser_profile(run.cl, run.dev))
        eq_value == int(value)
    IN  IF read.exc # "none" THEN read
        ELSE IF eq_value.exc # "none" THEN read
        ELSE IF ~(0 <= eq_value.value /\ eq_value.value <= 10) THEN read
        ELSE LET eq_profile == [EqProfile(<<5, 5, 5, 5, 5>>).profile EXCEPT !["hz" \o hz_str] = eq_value.value]
             IN  get_eq_preset(get_eq_profile(sleep(Await(read,
                     speaker_set_equaliser_profile(read.cl, read.dev, eq_profile)))))

\* _set_individual_eq: the profile is read from the speaker before the value
\* is parsed
set_individual_eq(run, hz_str, value) ==
    LET read == Await(run, speaker_get_equaliser_profile(run.cl, run.dev))
        eq_value == int(value)
    IN  IF read.exc # "none" THEN read
        ELSE IF eq_value.exc # "none" THEN read
        ELSE IF ~(0 <= eq_value.value /\ eq_value.value <= 10) THEN read
        ELSE LET eq_profile == [read.value EXCEPT !["hz" \o hz_str] = eq_value.value]
             IN  get_eq_preset(get_eq_profile(sleep(Await(read,
                     speaker_set_equaliser_profile(read.cl, read.dev, eq_profile)))))

get_device_name(run) ==
    LET r == Await(run, speaker_get_device_name(run.cl, run.dev))
    IN  IF r.exc # "none" THEN r
        ELSE publish(r, <<Publish(<<"info", "device_name">>, r.value, FALSE)>>)

set_device_name(run, name_bytes) ==
    LET decoded == utf8_decode(name_bytes)
        r == Await(run, speaker_set_device_name(run.cl, run.dev, decoded.text))
    IN  IF decoded.exc # "none" THEN run
        ELSE IF r.exc = "InvalidDeviceName" THEN [r EXCEPT !.exc = "none"]
        ELSE get_device_name(sleep(r))

get_led_brightness(run) ==
    LET r == Await(run, speaker_get_led_brightness(run.cl, run.dev))
    IN  IF r.exc # "none" THEN r
        ELSE publish(r, <<Publish(<<"info", "led_brightness">>, str(r.value), FALSE)>>)

set_led_brightness(run, brightness_bytes) ==
    LET brightness_int == int(brightness_bytes)
        r == Await(run,
                   speaker_set_led_brightness(run.cl, run.dev, brightness_int.value))
    IN  IF brightness_int.exc # "none" THEN run
        ELSE IF r.exc \in {"ValueError", "UnicodeDecodeError", "InvalidLedBrightness"}
        THEN [r EXCEPT !.exc = "none"]
        ELSE get_led_brightness(sleep(r))

get_status(run) ==
    LET r == Await(run, speaker_get_status(run.cl, run.dev))
    IN  IF r.exc # "none" THEN r ELSE publish(r, publish_status(r.value, FALSE))

set_interaction_sound(run, enabled_bytes) ==
    LET decoded == utf8_decode(enabled_bytes)
        enabled == int(decoded.text)
    IN  IF decoded.exc # "none" \/ enabled.exc # "none" THEN run
        ELSE get_status(sleep(Await(run,
                 speaker_set_interaction_sound(run.cl, run.dev, enabled.value # 0))))

set_source(run, source_bytes) ==
    LET decoded == utf8_decode(source_bytes)
        source == MemberByName(AudioSourceNames, upper(decoded.text))
    IN  IF decoded.exc # "none" \/ source.exc # "none" THEN run
        ELSE get_status(sleep(Await(run,
                 speaker_set_source(run.cl, run.dev, source.member))))

\* wakeup: the speaker is entered, then the status is read and published.
\* The line "if not self._speaker.is_connected:" stands one column deeper
\* than the call that enters the speaker, which is at the level of the body
\* of the function and not below the test.  guarded tells the two ways the
\* text can be taken apart: the test decides whether the speaker is entered
\* (TRUE), or the speaker is entered whatever the test says (FALSE).
wakeup(run, fail_at, guarded) ==
    LET entered == AEnter(TRUE, fail_at)
        connected == IF guarded /\ run.cl.is_connected THEN run
                     ELSE [run EXCEPT !.cl = entered.client, !.io = @ \o entered.io,
                                      !.exc = entered.exc]
    IN  get_status(connected)

----------------------------------------------------------------------------
(* mqtt.py: _handle_command *)

RECURSIVE matches_prefix(_, _)
RECURSIVE matches(_, _)
\* (mutation of matches: a pattern also matches every topic it is a prefix of)
matches_prefix(t, pattern) ==
    IF pattern = <<>> THEN TRUE
    ELSE IF pattern[1] = "#" THEN TRUE
    ELSE IF t = <<>> THEN FALSE
    ELSE (pattern[1] = "+" \/ pattern[1] = t[1]) /\ matches_prefix(Tail(t), Tail(pattern))

\* message.topic.matches(pattern): level by level, "+" stands for one
\* level, "#" for all the remaining ones
matches(t, pattern) ==
    IF pattern = <<>> THEN t = <<>>
    ELSE IF pattern[1] = "#" THEN TRUE
    ELSE IF t = <<>> THEN FALSE
    ELSE (pattern[1] = "+" \/ pattern[1] = t[1]) /\ matches(Tail(t), Tail(pattern))

BandNames == <<"160", "400", "1000", "2500", "6250">>

\* The hz_str set_eq_profile_individual passes on, "none" when no branch matches
BandOf(t) ==
    LET taken == {i \in 1..Len(BandNames) :
                     matches(t, topic(<<"command", "set_eq_profile", BandNames[i] \o "hz">>))}
    IN  IF taken = {} THEN "none"
        ELSE BandNames[CHOOSE i \in taken : \A j \in taken : i <= j]

set_eq_profile_individual(run, msg) ==
    IF BandOf(msg.topic) = "none" THEN run
    ELSE set_individual_eq(run, BandOf(msg.topic), msg.payload)

\* The branches of _handle_command, in order
Routes ==
    <<[pattern |-> <<"command", "set_volume">>, handler |-> "set_volume"],
      [pattern |-> <<"command", "get_volume">>, handler |-> "get_volume"],
      [pattern |-> <<"command", "set_eq_preset">>, handler |-> "set_eq_preset"],
      [pattern |-> <<"command", "get_eq_preset">>, handler |-> "get_eq_preset"],
      [pattern |-> <<"command", "set_eq_profile">>, handler |-> "set_eq_profile"],
      [pattern |-> <<"command", "set_eq_profile", "+">>,
       handler |-> "set_eq_profile_individual"],
      [pattern |-> <<"command", "get_eq_profile">>, handler |-> "get_eq_profile"],
      [pattern |-> <<"command", "set_device_name">>, handler |-> "set_device_name"],
      [pattern |-> <<"command", "get_device_name">>, handler |-> "get_device_name"],
      [pattern |-> <<"command", "set_led_brightness">>, handler |-> "set_led_brightness"],
      [pattern |-> <<"command", "get_led_brightness">>, handler |-> "get_led_brightness"],
      [pattern |-> <<"command", "play">>, handler |-> "play"],
      [pattern |-> <<"command", "pause">>, handler |-> "pause"],
      [pattern |-> <<"command", "next">>, handler |-> "next"],
      [pattern |-> <<"command", "previous">>, handler |-> "previous"],
      [pattern |-> <<"command", "set_interaction_sound">>,
       handler |-> "set_interaction_sound"],
      [pattern |-> <<"command", "get_status">>, handler |-> "get_status"],
      [pattern |-> <<"command", "set_source">>, handler |-> "set_source"],
      [pattern |-> <<"command", "wakeup">>, handler |-> "wakeup"],
      [pattern |-> <<"command", "enter_pairing_mode">>, handler |-> "enter_pairing_mode"]>>

\* (mutation of HandlersFor: the last branch does not look at allow_pairing)
HandlersFor_unguarded(t, pairing) ==
    LET taken == {i \in 1..Len(Routes) : matches(t, topic(Routes[i].pattern))}
    IN  IF taken = {} THEN <<>>
        ELSE <<Routes[CHOOSE i \in taken : \A j \in taken : i <= j].handler>>

\* The handlers _handle_command calls for a topic: the one of the first
\* branch whose condition holds, none when no condition holds
HandlersFor(t, pairing) ==
    LET taken == {i \in 1..Len(Routes) :
                     /\ Routes[i].handler = "enter_pairing_mode" => pairing
                     /\ matches(t, topic(Routes[i].pattern))}
    IN  IF taken = {} THEN <<>>
        ELSE <<Routes[CHOOSE i \in taken : \A j \in taken : i <= j].handler>>

RunHandler(handler, run, msg, fail_at, guarded) ==
    CASE handler = "set_volume" -> set_volume(run, msg.payload)
      [] handler = "get_volume" -> get_volume(run)
      [] handler = "set_eq_preset" -> set_eq_preset(run, msg.payload)
      [] handler = "get_eq_preset" -> get_eq_preset(run)
      [] handler = "set_eq_profile" -> set_eq_profile(run, msg.payload)
      [] handler = "set_eq_profile_individual" -> set_eq_profile_individual(run, msg)
      [] handler = "get_eq_profile" -> get_eq_profile(run)
      [] handler = "set_device_name" -> set_device_name(run, msg.payload)
      [] handler = "get_device_name" -> get_device_name(run)
      [] handler = "set_led_brightness" -> set_led_brightness(run, msg.payload)
      [] handler = "get_led_brightness" -> get_led_brightness(run)
      [] handler = "play" ->
           Await(run, speaker_play(run.cl, run.dev))
      [] handler = "pause" ->
           Await(run, speaker_pause(run.cl, run.dev))
      [] handler = "next" ->
           Await(run, speaker_next(run.cl, run.dev))
      [] handler = "previous" ->
           Await(run, speaker_previous(run.cl, run.dev))
      [] handler = "set_interaction_sound" -> set_interaction_sound(run, msg.payload)
      [] handler = "get_status" -> get_status(run)
      [] handler = "set_source" -> set_source(run, msg.payload)
      [] handler = "wakeup" -> wakeup(run, fail_at, guarded)
      [] handler = "enter_pairing_mode" ->
           Await(run, speaker_enter_pairing_mode(run.cl, run.dev))

\* One turn of the loop of _handle_messages: the message is routed and its
\* handler runs to its end; an exception no handler catches leaves the loop.
\* fail_at is the start_notify that fails should the handler connect, and
\* guarded is how wakeup is taken; neither matters to another handler.  The
\* message leaves the queue when it is at its head.
handle_command(msg, fail_at, guarded) ==
    \E handlers \in {HandlersFor(msg.topic, allow_pairing)} :
    \E begin \in {[cl |-> client, dev |-> device, io |-> <<>>, published |-> <<>>,
                  exc |-> "none", value |-> "None"]} :
    \E run \in {IF handlers = <<>> THEN begin
                ELSE RunHandler(handlers[1], begin, msg, fail_at, guarded)} :
        /\ called' = "_handle_command"
        /\ ret' = [op |-> "command",
                   attr |-> IF handlers = <<"set_eq_profile_individual">>
                            THEN BandOf(msg.topic) ELSE "none",
                   value |-> handlers, exc |-> run.exc, handled |-> FALSE,
                   args |-> <<msg>>]
        /\ client' = run.cl
        /\ device' = run.dev
        /\ io' = run.io
        /\ published' = run.published
        /\ running' = (run.exc = "none")
        /\ invoked' = <<>>
        /\ inbox' = IF inbox # <<>> /\ Head(inbox) = msg THEN Tail(inbox) ELSE inbox
        /\ UNCHANGED <<callbacks, issued, media_info_buffer, received, appended,
                       since_attempt, message, allow_pairing, handling>>

----------------------------------------------------------------------------
(* Status and equaliser notifications: _on_status_change, _on_equalizer_change *)

\* The loop over the registry is reached only when the value decoded; io
\* records the notification that was delivered
Dispatch(attr, name, char, data, decoded_exc, arg) ==
    LET d == callbacks[attr]
        calls == IF decoded_exc = "none" THEN CallAll(d, arg) ELSE <<>>
    IN  /\ called' = name
        /\ invoked' = calls
        /\ published' = TasksOf(calls)
        /\ io' = <<IoCall("notify", char, data)>>
        /\ ret' = [op |-> "dispatch", attr |-> attr, value |-> arg,
                   exc |-> IF decoded_exc # "none" THEN decoded_exc
                           ELSE IF LoopRaised(d) THEN "HandlerRaised" ELSE "none",
                   handled |-> FALSE]
        /\ UNCHANGED <<callbacks, issued, media_info_buffer, received, appended,
                       since_attempt, message, client, device, allow_pairing, running,
                   inbox, handling>>

on_status_change(data) ==
    LET status == decode_status(data)
    IN  Dispatch("_status_callbacks", "_on_status_change", "control_characteristic", data,
                 status.exc, status.status)

on_equalizer_change(data) ==
    LET eq_profile == EqProfile(data)
    IN  Dispatch("_equalizer_callbacks", "_on_equalizer_change", "eq_characteristic", data,
                 eq_profile.exc, eq_profile.profile)

----------------------------------------------------------------------------
(* Media-info reassembly: _decode_index, _handle_media_info, _on_media_info *)

media_info_ending_bytes == <<0, 0, 0, 255, 0, 0, 0, 0>>

\* Python's None, as a value no decoded text can equal
None == <<-1>>

FieldMarker(field_id) == <<0, 0, 0, field_id, 0, 106, 0>>

decode_index(data, offset) ==
    LET data_length_pos == offset + 7
        data_start_pos == data_length_pos + 1
    IN  IF data_length_pos >= Len(data) THEN [exc |-> "IndexError", text |-> <<>>]
        ELSE LET data_length == data[data_length_pos + 1]
             IN  utf8_decode(Slice(data, data_start_pos, data_start_pos + data_length))

\* One of the three extractions of _handle_media_info:
\*   pos = data.index(marker); None if pos == -1 else _decode_index(data, pos)
ExtractField(data, field_id) ==
    LET found == bytes_index(data, FieldMarker(field_id))
    IN  IF found.exc # "none" THEN [exc |-> found.exc, text |-> <<>>]
        ELSE IF found.pos = -1 THEN [exc |-> "none", text |-> None]
        ELSE decode_index(data, found.pos)

MediaInfo(title, artist, album) == [title |-> title, artist |-> artist, album |-> album]

NoInfo == MediaInfo(None, None, None)

\* The try block of _handle_media_info on the buffer contents data with the
\* registry d: the exception that leaves it (or "none"), the MediaInfo
\* built, and the handler invocations made.
handle_media_info(data, d) ==
    LET title == ExtractField(data, 1)
        artist == ExtractField(data, 2)
        album == ExtractField(data, 3)
        failed(e) == [exc |-> e, media_info |-> NoInfo, calls |-> <<>>]
    IN  IF title.exc # "none" THEN failed(title.exc)
        ELSE IF artist.exc # "none" THEN failed(artist.exc)
        ELSE IF album.exc # "none" THEN failed(album.exc)
        ELSE LET media_info == MediaInfo(title.text, artist.text, album.text)
             IN  [exc |-> IF LoopRaised(d) THEN "HandlerRaised" ELSE "none",
                  media_info |-> media_info,
                  calls |-> CallAll(d, media_info)]

\* (mutation of BufferAfterHandle: the reset placed at the end of the try
\* block instead of in finally)
BufferAfterHandle_try(data, outcome) == IF outcome.exc = "none" THEN <<>> ELSE data

\* finally: self._media_info_buffer = BytesIO()
BufferAfterHandle(data, outcome) == <<>>

\* (mutation of EndingDetected: only the last four bytes are compared)
EndingDetected_tail(data) == LastBytes(data, 4) = LastBytes(media_info_ending_bytes, 4)

\* if data[-8:] == self._media_info_ending_bytes
EndingDetected(data) == LastBytes(data, 8) = media_info_ending_bytes

on_media_info(data) ==
    LET written == media_info_buffer \o data
        outcome == handle_media_info(written, callbacks["_media_info_callbacks"])
    IN  /\ called' = "_on_media_info"
        /\ io' = <<>>
        /\ received' = received \o data
        /\ appended' = written
        /\ message' = since_attempt \o data
        /\ since_attempt' = IF EndingDetected(data) THEN <<>> ELSE since_attempt \o data
        /\ IF EndingDetected(data)
           THEN /\ media_info_buffer' = BufferAfterHandle(written, outcome)
                /\ invoked' = outcome.calls
                /\ published' = TasksOf(outcome.calls)
                /\ ret' = [op |-> "media_info", attr |-> "_media_info_callbacks",
                           value |-> outcome.media_info, exc |-> outcome.exc,
                           handled |-> TRUE]
           ELSE /\ media_info_buffer' = written
                /\ invoked' = <<>>
                /\ published' = <<>>
                /\ ret' = [op |-> "media_info", attr |-> "_media_info_callbacks",
                           value |-> NoInfo, exc |-> "none", handled |-> FALSE]
        /\ UNCHANGED <<callbacks, issued, client, device, allow_pairing, running,
                   inbox, handling>>

----------------------------------------------------------------------------
(* Construction: MarshallStanmore2.__init__ *)

Init ==
    /\ callbacks = [a \in Attrs |-> <<>>]
    /\ ret = [op |-> "init", attr |-> "none", value |-> 0, exc |-> "none", handled |-> FALSE]
    /\ invoked = <<>>
    /\ issued = [a \in Attrs |-> {}]
    /\ media_info_buffer = <<>>
    /\ received = <<>>
    /\ appended = <<>>
    /\ since_attempt = <<>>
    /\ message = <<>>
    /\ called = "__init__"
    /\ client = [is_connected |-> FALSE, notifying |-> <<>>]
    /\ device = InitialDevice
    /\ io = <<>>
    /\ published = <<>>
    /\ allow_pairing = FALSE
    /\ running = FALSE
    /\ inbox = <<>>
    /\ handling = <<>>

\* Exploration bound on registrations
CanRegister(attr) == NextCallbackId(callbacks[attr]) <= MaxId

NextRegistry ==
    \/ \E cb \in Handlers : CanRegister("_disconnect_callbacks") /\ register_disconnect_callback(cb)
    \/ \E id \in 1..MaxId : cancel_disconnect_callback(id)
    \/ \E cb \in Handlers : CanRegister("_volume_change_callbacks") /\ register_volume_callback(cb)
    \/ \E id \in 1..MaxId : cancel_volume_callback(id)
    \/ \E v \in Volumes : on_volume_change(<<v>>)
    \/ on_disconnect

SpecRegistry == Init /\ [][NextRegistry]_vars

----------------------------------------------------------------------------
(* Media-info notifications fed to the reassembler *)

Text_a == <<97>>
Text_b == <<98>>
Text_c == <<99>>
Text_hello == <<104, 101, 108, 108, 111>>
Text_artist == <<97, 114, 116, 105, 115, 116>>

Field(field_id, raw) == FieldMarker(field_id) \o <<Len(raw)>> \o raw

ChunkTitleArtist == Field(1, Text_a) \o Field(2, Text_b)
ChunkHelloArtist == Field(1, Text_hello) \o Field(2, Text_artist)
ChunkAlbum == Field(3, Text_c)
ChunkEnding == media_info_ending_bytes
ChunkAlbumEnding == ChunkAlbum \o media_info_ending_bytes
ChunkAlbumEndingHead == ChunkAlbum \o SubSeq(media_info_ending_bytes, 1, 4)
ChunkEndingTail == SubSeq(media_info_ending_bytes, 5, 8)
ChunkBadTitle == Field(1, <<255>>)

Chunks == {ChunkTitleArtist, ChunkHelloArtist, ChunkAlbum, ChunkEnding,
           ChunkAlbumEnding, ChunkAlbumEndingHead, ChunkEndingTail, ChunkBadTitle}

CanRegisterMedia == NextCallbackId(callbacks["_media_info_callbacks"]) <= MaxMediaId

NextMedia ==
    \/ \E cb \in Handlers : CanRegisterMedia /\ register_media_info_callback(cb)
    \/ \E id \in 1..MaxMediaId : cancel_media_info_callback(id)
    \/ \E data \in Chunks : Len(received) + Len(data) <= MaxStream /\ on_media_info(data)

SpecMedia == Init /\ [][NextMedia]_vars

----------------------------------------------------------------------------
(* Status and equaliser notifications delivered to the facade *)

StatusValues == {<<3, 1, 255, 1>>, <<1, 0, 0, 0>>, <<4, 2, 0, 1>>, <<9, 1, 0, 1>>,
                 <<3, 7, 0, 1>>, <<3, 1>>}

NextNotify ==
    \/ \E cb \in Handlers : CanRegister("_status_callbacks") /\ register_status_callback(cb)
    \/ \E id \in 1..MaxId : cancel_status_callback(id)
    \/ \E cb \in Handlers : CanRegister("_equalizer_callbacks") /\ register_equalizer_callback(cb)
    \/ \E id \in 1..MaxId : cancel_equalizer_callback(id)
    \/ \E data \in StatusValues : on_status_change(data)
    \/ \E data \in {<<5, 5, 5, 5, 5>>, <<8, 6, 3, 5, 7>>, <<5, 5, 5>>, <<11, 5, 5, 5, 5>>} :
          on_equalizer_change(data)

SpecNotify == Init /\ [][NextNotify]_vars

----------------------------------------------------------------------------
(* Properties of the callback registries (SpecRegistry) *)

MaxOf(S) == CHOOSE m \in S : \A x \in S : x <= m

\* One invocation per entry of d, in insertion order, all with arg
EachOnce(d, arg) == [i \in 1..Len(d) |-> [id |-> d[i].id, cb |-> d[i].cb, arg |-> arg]]

NoRaiser(d) == \A i \in 1..Len(d) : ~Raises(d[i].cb)

\* C1: the ID a register returns was never returned by an earlier register
\* on the same registry, also after cancellations.
C1_IdsNeverReused ==
    [][ret'.op = "register" => ret'.value \notin issued[ret'.attr]]_vars

\* C2: register returns 1 on an empty registry and otherwise the highest ID
\* present plus one, so the new ID is above every ID that was present and is
\* stored as the newest entry.
C2_RegisterReturnsHighestPlusOne ==
    ret.op = "register" =>
        LET d == callbacks[ret.attr]
            before == SubSeq(d, 1, Len(d) - 1)
        IN  /\ Len(d) >= 1
            /\ d[Len(d)].id = ret.value
            /\ ret.value = IF before = <<>> THEN 1 ELSE MaxOf(Keys(before)) + 1
            /\ \A k \in Keys(before) : ret.value > k
            /\ Cardinality(Keys(d)) = Len(d)

C2_Witness ==
    /\ ret.op = "register"
    /\ ret.value = 3
    /\ Keys(callbacks[ret.attr]) = {2, 3}

\* C3: when a dispatch runs and a handler raises, every handler of that
\* registry has still been invoked.
C3_RaisingHandlerDoesNotStopOthers ==
    ret.op = "dispatch" =>
        \A i \in 1..Len(callbacks[ret.attr]) :
            \E j \in 1..Len(invoked) : invoked[j].id = callbacks[ret.attr][i].id

\* C9: cancel of an ID that is not in the registry raises InvalidCallbackID
\* and leaves every registry as it was.
C9_CancelUnknownIdFails ==
    [][(ret'.op = "cancel" /\ ret'.value \notin Keys(callbacks[ret'.attr]))
          => (ret'.exc = "InvalidCallbackID" /\ callbacks' = callbacks)]_vars

C9_Witness ==
    /\ ret.op = "cancel"
    /\ ret.exc = "InvalidCallbackID"
    /\ ret.value \in issued[ret.attr]
    /\ Len(callbacks[ret.attr]) >= 2

\* C10: cancel of an ID that is in the registry removes that entry only; the
\* other entries keep their IDs, their handlers and their relative order.
C10_CancelRemovesOnlyThatEntry ==
    [][(ret'.op = "cancel" /\ ret'.value \in Keys(callbacks[ret'.attr])) =>
          LET old == callbacks[ret'.attr]
              new == callbacks'[ret'.attr]
              kept == {i \in 1..Len(old) : old[i].id # ret'.value}
          IN  /\ ret'.exc = "none"
              /\ Len(new) = Cardinality(kept)
              /\ ret'.value \notin Keys(new)
              /\ \A i \in kept : \E i2 \in 1..Len(new) : new[i2] = old[i]
              /\ \A i, j \in kept : i < j =>
                    \E i2, j2 \in 1..Len(new) :
                        i2 < j2 /\ new[i2] = old[i] /\ new[j2] = old[j]
              /\ \A a \in Attrs \ {ret'.attr} : callbacks'[a] = callbacks[a]]_vars

C10_Witness ==
    /\ ret.op = "cancel"
    /\ ret.exc = "none"
    /\ ret.value = 2
    /\ Keys(callbacks[ret.attr]) = {1, 3}

----------------------------------------------------------------------------
(* The five registries side by side, each holding the handler MqttControl
   registers for that kind *)

\* MqttControl._init_speaker: the handler given to each register_*_callback
HandlerOf(attr) ==
    CASE attr = "_disconnect_callbacks" -> "_ble_disconnect_callback"
      [] attr = "_equalizer_callbacks" -> "_ble_equalizer_callback"
      [] attr = "_volume_change_callbacks" -> "_ble_volume_callback"
      [] attr = "_status_callbacks" -> "_ble_status_callback"
      [] attr = "_media_info_callbacks" -> "_ble_media_info_callback"

RECURSIVE SumIssued(_)
SumIssued(S) ==
    IF S = {} THEN 0
    ELSE LET a == CHOOSE x \in S : TRUE
         IN  Cardinality(issued[a]) + SumIssued(S \ {a})

\* Exploration bound on registrations
CanRegisterFacade == SumIssued(Attrs) < MaxFacadeRegs

NextFacade ==
    \/ CanRegisterFacade
        /\ register_disconnect_callback(HandlerOf("_disconnect_callbacks"))
    \/ \E id \in 1..MaxFacadeRegs : cancel_disconnect_callback(id)
    \/ CanRegisterFacade /\ register_status_callback(HandlerOf("_status_callbacks"))
    \/ \E id \in 1..MaxFacadeRegs : cancel_status_callback(id)
    \/ CanRegisterFacade
        /\ register_volume_callback(HandlerOf("_volume_change_callbacks"))
    \/ \E id \in 1..MaxFacadeRegs : cancel_volume_callback(id)
    \/ CanRegisterFacade
        /\ register_equalizer_callback(HandlerOf("_equalizer_callbacks"))
    \/ \E id \in 1..MaxFacadeRegs : cancel_equalizer_callback(id)
    \/ CanRegisterFacade
        /\ register_media_info_callback(HandlerOf("_media_info_callbacks"))
    \/ \E id \in 1..MaxFacadeRegs : cancel_media_info_callback(id)
    \/ on_disconnect
    \/ on_status_change(<<3, 1, 255, 1>>)
    \/ on_volume_change(<<16>>)
    \/ on_equalizer_change(<<8, 6, 3, 5, 7>>)
    \/ Len(received) + Len(ChunkAlbumEnding) <= MaxStream /\ on_media_info(ChunkAlbumEnding)

SpecFacade == Init /\ [][NextFacade]_vars

----------------------------------------------------------------------------
(* The facade connected to a speaker: connection, validated writes, reads *)

Repeat(b, n) == [i \in 1..n |-> b]

InSeq(x, seq) == \E i \in 1..Len(seq) : seq[i] = x

\* Volumes and brightnesses on both sides of each range end; names as code
\* points: empty, one letter, 17 and 18 letters, and 8 and 9 times U+00E9,
\* which takes two bytes each
NextDevice ==
    \/ \E connect_ok \in BOOLEAN, fail_at \in 0..Len(Subscriptions) :
          ~client.is_connected /\ aenter(connect_ok, fail_at)
    \/ client.is_connected /\ aexit
    \/ FacadeCall("get_status", <<>>, speaker_get_status(client, device))
    \/ \E volume \in {-1, 0, 32, 33} :
          FacadeCall("set_volume", <<volume>>, speaker_set_volume(client, device, volume))
    \/ FacadeCall("get_volume", <<>>, speaker_get_volume(client, device))
    \/ \E brightness \in {-1, 0, 35, 36} :
          FacadeCall("set_led_brightness", <<brightness>>,
                     speaker_set_led_brightness(client, device, brightness))
    \/ FacadeCall("get_led_brightness", <<>>, speaker_get_led_brightness(client, device))
    \/ \E name \in {<<>>, <<83>>, Repeat(97, 17), Repeat(97, 18), Repeat(233, 8),
                     Repeat(233, 9)} :
          FacadeCall("set_device_name", <<name>>, speaker_set_device_name(client, device, name))
    \/ FacadeCall("get_device_name", <<>>, speaker_get_device_name(client, device))
    \/ \E data \in StatusValues : speaker_reports(data)
    \/ \E cb \in Handlers :
          Len(callbacks["_status_callbacks"]) < MaxDeviceRegs /\ register_status_callback(cb)
    \/ \E data \in StatusValues :
          InSeq("control_characteristic", client.notifying) /\ on_status_change(data)

SpecDevice == Init /\ [][NextDevice]_vars

----------------------------------------------------------------------------
(* The router: MqttControl constructed and started, messages arriving on the
   bus and notifications arriving from the speaker *)

\* _init_speaker, given the attributes its register calls fill, in order
RECURSIVE init_speaker(_, _)
init_speaker(registries, attrs) ==
    IF attrs = <<>> THEN registries
    ELSE LET attr == Head(attrs)
             callback_dict == registries[attr]
         IN  init_speaker([registries EXCEPT ![attr] =
                              DictSet(callback_dict, NextCallbackId(callback_dict),
                                      HandlerOf(attr))],
                          Tail(attrs))

InitRouter ==
    /\ callbacks = init_speaker([a \in Attrs |-> <<>>],
                                <<"_disconnect_callbacks", "_equalizer_callbacks",
                                  "_volume_change_callbacks", "_status_callbacks",
                                  "_volume_change_callbacks", "_media_info_callbacks">>)
    /\ issued = [a \in Attrs |-> Keys(callbacks[a])]
    /\ ret = [op |-> "init", attr |-> "none", value |-> 0, exc |-> "none", handled |-> FALSE]
    /\ invoked = <<>>
    /\ media_info_buffer = <<>>
    /\ received = <<>>
    /\ appended = <<>>
    /\ since_attempt = <<>>
    /\ message = <<>>
    /\ called = "start"
    /\ client = Disconnected
    /\ device = InitialDevice
    /\ io = <<>>
    /\ published = <<>>
    /\ allow_pairing \in BOOLEAN
    /\ running = TRUE
    /\ inbox = <<>>
    /\ handling = <<>>

Message(topic_name, payload) == [topic |-> topic(topic_name), payload |-> payload]

\* The payloads of the messages explored, by name
Payloads ==
    [empty |-> <<>>,
     bad_utf8 |-> <<255>>,
     abc |-> <<97, 98, 99>>,
     five |-> <<53>>,
     seven |-> <<55>>,
     eleven |-> <<49, 49>>,
     thirty_three |-> <<51, 51>>,
     thirty_five |-> <<51, 53>>,
     thirty_six |-> <<51, 54>>,
     one |-> <<49>>,
     flat |-> <<102, 108, 97, 116>>,
     bogus |-> <<98, 111, 103, 117, 115>>,
     profile_flat |-> <<53, 32, 53, 32, 53, 32, 53, 32, 53>>,
     profile_four |-> <<53, 32, 53, 32, 53, 32, 53>>,
     profile_high |-> <<49, 49, 32, 53, 32, 53, 32, 53, 32, 53>>,
     profile_word |-> <<53, 32, 53, 32, 120, 32, 53, 32, 53>>,
     name |-> <<83>>,
     name_long |-> Repeat(97, 18),
     bluetooth |-> <<98, 108, 117, 101, 116, 111, 111, 116, 104>>,
     usb |-> <<117, 115, 98>>]

\* The messages explored: set commands with payloads on both sides of what
\* each handler accepts, commands without payload, and addresses no branch
\* is written for
Messages ==
    LET BadText == {Payloads.abc, Payloads.bad_utf8, Payloads.empty}
        WithPayloads(topic_name, payloads) == {Message(topic_name, p) : p \in payloads}
    IN  WithPayloads(<<"command", "set_eq_profile", "160hz">>,
                     {Payloads.five, Payloads.seven, Payloads.eleven} \cup BadText)
        \cup WithPayloads(<<"command", "set_eq_profile", "400hz">>,
                          {Payloads.five, Payloads.abc})
        \cup WithPayloads(<<"command", "set_eq_profile", "1000hz">>,
                          {Payloads.five, Payloads.eleven})
        \cup WithPayloads(<<"command", "set_eq_profile", "2500hz">>,
                          {Payloads.five, Payloads.empty})
        \cup WithPayloads(<<"command", "set_eq_profile", "6250hz">>,
                          {Payloads.five, Payloads.seven, Payloads.bad_utf8})
        \cup WithPayloads(<<"command", "set_volume">>,
                          {Payloads.seven, Payloads.thirty_three} \cup BadText)
        \cup WithPayloads(<<"command", "set_eq_preset">>,
                          {Payloads.flat, Payloads.bogus, Payloads.bad_utf8})
        \cup WithPayloads(<<"command", "set_eq_profile">>,
                          {Payloads.profile_flat, Payloads.profile_four,
                           Payloads.profile_high, Payloads.profile_word,
                           Payloads.bad_utf8})
        \cup WithPayloads(<<"command", "set_device_name">>,
                          {Payloads.name, Payloads.name_long, Payloads.empty,
                           Payloads.bad_utf8})
        \cup WithPayloads(<<"command", "set_led_brightness">>,
                          {Payloads.thirty_five, Payloads.thirty_six} \cup BadText)
        \cup WithPayloads(<<"command", "set_interaction_sound">>,
                          {Payloads.one} \cup BadText)
        \cup WithPayloads(<<"command", "set_source">>,
                          {Payloads.bluetooth, Payloads.usb, Payloads.bad_utf8})
        \cup {Message(<<"command", name>>, Payloads.empty) :
                 name \in {"get_volume", "get_eq_preset", "get_eq_profile",
                           "get_device_name", "get_led_brightness", "play", "pause",
                           "next", "previous", "get_status", "wakeup",
                           "enter_pairing_mode"}}
        \cup {Message(<<"command", "set_eq_profile", "50hz">>, Payloads.seven),
              Message(<<"command", "set_eq_profile", "160hz", "now">>, Payloads.seven),
              Message(<<"command", "play", "now">>, Payloads.empty),
              Message(<<"command", "shutdown">>, Payloads.empty),
              Message(<<"command">>, Payloads.seven),
              Message(<<"info", "volume">>, Payloads.seven),
              [topic |-> <<"kitchen", "command", "play">>, payload |-> Payloads.empty]}

NextRouter ==
    \/ \E msg \in Messages : running /\ handle_command(msg, 0, TRUE)
    \/ \E fail_at \in 0..Len(Subscriptions), guarded \in BOOLEAN :
          running /\ handle_command(Message(<<"command", "wakeup">>, Payloads.empty),
                                    fail_at, guarded)
    \/ running /\ InSeq("volume_characteristic", client.notifying)
       /\ on_volume_change(<<16>>)
    \/ running /\ InSeq("control_characteristic", client.notifying)
       /\ on_status_change(<<3, 1, 255, 1>>)
    \/ running /\ InSeq("eq_characteristic", client.notifying)
       /\ on_equalizer_change(<<8, 6, 3, 5, 7>>)

SpecRouter == InitRouter /\ [][NextRouter]_vars

----------------------------------------------------------------------------
(* Equaliser presets: the profiles the speaker is given and the preset read
   back from it, by the facade and by the router *)

\* The profiles explored: the seven presets, every preset with one of its
\* lowest MaxShiftedBands bands one step off, and three far from any preset
EqProfiles ==
    LET shifted(t, i, d) == [t EXCEPT ![i] = @ + d]
    IN  {astuple(EqPresetValue(m)) : m \in EqPresetNames}
        \cup {shifted(astuple(EqPresetValue(m)), i, d) :
                 m \in EqPresetNames, i \in 1..MaxShiftedBands, d \in {-1, 1}}
        \cup {<<0, 0, 0, 0, 0>>, <<10, 10, 10, 10, 10>>, <<7, 5, 3, 6, 8>>}

NextEq ==
    \/ \E guarded \in BOOLEAN :
          running /\ handle_command(Message(<<"command", "wakeup">>, Payloads.empty),
                                    0, guarded)
    \/ \E bands \in EqProfiles :
          FacadeCall("set_equaliser_profile", <<bands>>,
                     speaker_set_equaliser_profile(client, device, EqProfile(bands).profile))
    \/ \E preset \in EqPresetNames :
          FacadeCall("set_equaliser_preset", <<preset>>,
                     speaker_set_equaliser_preset(client, device, preset))
    \/ FacadeCall("get_equaliser_preset", <<>>, speaker_get_equaliser_preset(client, device))
    \/ running /\ handle_command(Message(<<"command", "get_eq_preset">>, Payloads.empty),
                                  0, TRUE)

SpecEq == InitRouter /\ [][NextEq]_vars

----------------------------------------------------------------------------
(* LED brightness and device name: every brightness on both sides of the
   range, and names of one to four bytes per character on both sides of the
   17 bytes a name may take *)

NextCodec ==
    \/ ~client.is_connected /\ aenter(TRUE, 0)
    \/ client.is_connected /\ aexit
    \/ \E brightness \in -1..36 :
          FacadeCall("set_led_brightness", <<brightness>>,
                     speaker_set_led_brightness(client, device, brightness))
    \/ FacadeCall("get_led_brightness", <<>>, speaker_get_led_brightness(client, device))
    \/ \E name \in {<<>>, <<83>>, <<233>>, <<8364>>, <<128512>>,
                     <<83, 233, 8364, 128512>>, Repeat(97, 17), Repeat(97, 18),
                     Repeat(233, 8) \o <<97>>, Repeat(233, 9),
                     Repeat(8364, 5) \o <<233>>, Repeat(8364, 6),
                     Repeat(128512, 4) \o <<97>>, Repeat(128512, 4) \o <<233>>} :
          FacadeCall("set_device_name", <<name>>, speaker_set_device_name(client, device, name))
    \/ FacadeCall("get_device_name", <<>>, speaker_get_device_name(client, device))

SpecCodec == Init /\ [][NextCodec]_vars

----------------------------------------------------------------------------
(* The message loop with the settle delay as a point of suspension: a set
   handler runs up to its asyncio.sleep in one step and from there to its end
   in another, and messages and notifications may arrive in between.  The
   other awaits of a handler are not split. *)

\* The bus client puts a message that arrived on its queue
messages_put(msg) ==
    /\ Len(inbox) < MaxInbox
    /\ inbox' = Append(inbox, msg)
    /\ called' = "messages.put"
    /\ ret' = [op |-> "arrival", attr |-> "none", value |-> "None", exc |-> "none",
               handled |-> FALSE, args |-> <<msg>>]
    /\ io' = <<>>
    /\ invoked' = <<>>
    /\ published' = <<>>
    /\ UNCHANGED <<callbacks, issued, media_info_buffer, received, appended,
                   since_attempt, message, client, device, allow_pairing, running,
                   handling>>

\* What a set handler does once its settle delay is over
AfterSleep(handler, run) ==
    CASE handler = "set_volume" ->
           LET r == get_volume(run)
           IN  IF r.exc \in {"ValueError", "UnicodeDecodeError", "InvalidVolume"}
               THEN [r EXCEPT !.exc = "none"] ELSE r
      [] handler = "set_eq_preset" -> get_eq_profile(get_eq_preset(run))
      [] handler = "set_eq_profile" -> get_eq_preset(get_eq_profile(run))
      [] handler = "set_eq_profile_individual" -> get_eq_preset(get_eq_profile(run))
      [] handler = "set_device_name" -> get_device_name(run)
      [] handler = "set_led_brightness" -> get_led_brightness(run)
      [] handler = "set_interaction_sound" -> get_status(run)
      [] handler = "set_source" -> get_status(run)

\* (mutation of handle_messages: the loop takes the next message while a
\* handler is in its settle delay)
handle_messages_spawn ==
    /\ running
    /\ inbox # <<>>
    /\ \E msg \in {Head(inbox)} :
       \E handlers \in {HandlersFor(msg.topic, allow_pairing)} :
       \E guarded \in IF handlers = <<"wakeup">> THEN BOOLEAN ELSE {TRUE} :
       \E begin \in {[cl |-> client, dev |-> device, io |-> <<>>, published |-> <<>>,
                     exc |-> "none", value |-> "None"]} :
       \E run \in {IF handlers = <<>> THEN begin
                   ELSE RunHandler(handlers[1], begin, msg, 0, guarded)} :
       \E sleeps \in {{i \in 1..Len(run.io) : run.io[i].op = "sleep"}} :
          IF sleeps = {}
          THEN handle_command(msg, 0, guarded)
          ELSE /\ called' = "_handle_command"
               /\ ret' = [op |-> "settle", attr |-> "none", value |-> handlers,
                          exc |-> "none", handled |-> FALSE, args |-> <<msg>>]
               /\ io' = SubSeq(run.io, 1, CHOOSE i \in sleeps : TRUE)
               /\ device' = run.dev
               /\ published' = <<>>
               /\ invoked' = <<>>
               /\ inbox' = Tail(inbox)
               /\ handling' = Append(handling, [msg |-> msg, handler |-> handlers[1]])
               /\ UNCHANGED <<callbacks, issued, media_info_buffer, received, appended,
                              since_attempt, message, client, allow_pairing, running>>

\* _handle_messages: "async for message ...: await self._handle_command(message)".
\* The next message is taken when the handler of the one before has
\* returned.  A handler that reaches its settle delay is left suspended
\* there, the transport calls before the delay made; any other handler runs
\* to its end.
handle_messages ==
    /\ running
    /\ inbox # <<>>
    /\ handling = <<>>
    /\ \E msg \in {Head(inbox)} :
       \E handlers \in {HandlersFor(msg.topic, allow_pairing)} :
       \E guarded \in IF handlers = <<"wakeup">> THEN BOOLEAN ELSE {TRUE} :
       \E begin \in {[cl |-> client, dev |-> device, io |-> <<>>, published |-> <<>>,
                     exc |-> "none", value |-> "None"]} :
       \E run \in {IF handlers = <<>> THEN begin
                   ELSE RunHandler(handlers[1], begin, msg, 0, guarded)} :
       \E sleeps \in {{i \in 1..Len(run.io) : run.io[i].op = "sleep"}} :
          IF sleeps = {}
          THEN handle_command(msg, 0, guarded)
          ELSE /\ called' = "_handle_command"
               /\ ret' = [op |-> "settle", attr |-> "none", value |-> handlers,
                          exc |-> "none", handled |-> FALSE, args |-> <<msg>>]
               /\ io' = SubSeq(run.io, 1, CHOOSE i \in sleeps : TRUE)
               /\ device' = run.dev
               /\ published' = <<>>
               /\ invoked' = <<>>
               /\ inbox' = Tail(inbox)
               /\ handling' = Append(handling, [msg |-> msg, handler |-> handlers[1]])
               /\ UNCHANGED <<callbacks, issued, media_info_buffer, received, appended,
                              since_attempt, message, client, allow_pairing, running>>

\* The settle delay of the suspended handler is over: it reads the value back
\* from the speaker as it is now and publishes it
sleep_over ==
    /\ handling # <<>>
    /\ \E h \in {Head(handling)} :
       \E run \in {AfterSleep(h.handler,
                              [cl |-> client, dev |-> device, io |-> <<>>,
                               published |-> <<>>, exc |-> "none", value |-> "None"])} :
          /\ called' = "_handle_command"
          /\ ret' = [op |-> "command", attr |-> "none", value |-> <<h.handler>>,
                     exc |-> run.exc, handled |-> FALSE, args |-> <<h.msg>>]
          /\ client' = run.cl
          /\ device' = run.dev
          /\ io' = run.io
          /\ published' = run.published
          /\ running' = (run.exc = "none")
          /\ invoked' = <<>>
          /\ handling' = Tail(handling)
          /\ UNCHANGED <<callbacks, issued, media_info_buffer, received, appended,
                         since_attempt, message, allow_pairing, inbox>>

NextSettle ==
    \/ \E msg \in {Message(<<"command", "wakeup">>, Payloads.empty),
                    Message(<<"command", "set_volume">>, Payloads.seven),
                    Message(<<"command", "set_eq_preset">>, Payloads.flat),
                    Message(<<"command", "set_eq_profile">>, Payloads.profile_flat),
                    Message(<<"command", "set_eq_profile", "160hz">>, Payloads.seven),
                    Message(<<"command", "set_device_name">>, Payloads.name),
                    Message(<<"command", "set_led_brightness">>, Payloads.thirty_five),
                    Message(<<"command", "set_interaction_sound">>, Payloads.one),
                    Message(<<"command", "set_source">>, Payloads.bluetooth)} :
          messages_put(msg)
    \/ handle_messages
    \/ sleep_over
    \/ running /\ InSeq("volume_characteristic", client.notifying)
       /\ on_volume_change(<<16>>)
    \/ running /\ InSeq("control_characteristic", client.notifying)
       /\ on_status_change(<<3, 1, 255, 1>>)

SpecSettle == InitRouter /\ [][NextSettle]_vars

\* The timer of asyncio.sleep fires: the delay of the handler suspended first
\* comes to its end
SpecSettleLive == SpecSettle /\ WF_handling(handling # <<>> /\ handling' = Tail(handling))

----------------------------------------------------------------------------
(* Properties of the status and equaliser dispatch (SpecNotify) *)

DecodeErrors == {"KeyError", "IndexError", "TypeError", "ValueError"}

\* C11: when the notified value decodes and no registered handler raises, a
\* status or equaliser dispatch invokes every handler currently in that
\* registry exactly once, in insertion order, all with the same decoded
\* argument, and none of the invoked IDs is one that was cancelled.
C11_DispatchInvokesEachRegisteredOnce ==
    (/\ called \in {"_on_status_change", "_on_equalizer_change"}
     /\ ret.exc \notin DecodeErrors
     /\ NoRaiser(callbacks[ret.attr]))
    => /\ invoked = EachOnce(callbacks[ret.attr], ret.value)
       /\ \A i \in 1..Len(invoked) :
             invoked[i].id \notin issued[ret.attr] \ Keys(callbacks[ret.attr])

C11_Witness ==
    /\ called = "_on_status_change"
    /\ ret.exc = "none"
    /\ NoRaiser(callbacks["_status_callbacks"])
    /\ Len(callbacks["_status_callbacks"]) = 2
    /\ issued["_status_callbacks"] \ Keys(callbacks["_status_callbacks"]) # {}
    /\ Len(invoked) = 2

----------------------------------------------------------------------------
(* Properties of the five registries together (SpecFacade) *)

\* The event kind a public operation or notification handler is about
KindOf(name) ==
    CASE name \in {"register_disconnect_callback", "cancel_disconnect_callback",
                   "_on_disconnect"} -> "_disconnect_callbacks"
      [] name \in {"register_status_callback", "cancel_status_callback",
                   "_on_status_change"} -> "_status_callbacks"
      [] name \in {"register_volume_callback", "cancel_volume_callback",
                   "_on_volume_change"} -> "_volume_change_callbacks"
      [] name \in {"register_media_info_callback", "cancel_media_info_callback",
                   "_on_media_info"} -> "_media_info_callbacks"
      [] name \in {"register_equalizer_callback", "cancel_equalizer_callback",
                   "_on_equalizer_change"} -> "_equalizer_callbacks"

IsCancel(name) ==
    name \in {"cancel_disconnect_callback", "cancel_status_callback",
              "cancel_volume_callback", "cancel_media_info_callback",
              "cancel_equalizer_callback"}

\* C12: an operation on one event kind leaves the registries of the other
\* four kinds unchanged; a cancel that succeeds removes its ID from the
\* registry its own kind's register fills, and one that fails names an ID
\* absent from that registry; a notification invokes only entries of its
\* own kind's registry.
C12_RegistriesIndependent ==
    [][LET kind == KindOf(called')
       IN  /\ \A a \in Attrs \ {kind} : callbacks'[a] = callbacks[a]
           /\ IsCancel(called') =>
                 IF ret'.value \in Keys(callbacks[kind])
                 THEN /\ ret'.exc = "none"
                      /\ Keys(callbacks'[kind]) = Keys(callbacks[kind]) \ {ret'.value}
                 ELSE ret'.exc = "InvalidCallbackID"
           /\ \A i \in 1..Len(invoked') :
                 /\ invoked'[i].cb = HandlerOf(kind)
                 /\ \E j \in 1..Len(callbacks[kind]) :
                       /\ callbacks[kind][j].id = invoked'[i].id
                       /\ callbacks[kind][j].cb = invoked'[i].cb]_vars

\* A status cancel succeeded while the volume registry held the same ID
C12_Witness ==
    /\ called = "cancel_status_callback"
    /\ ret.exc = "none"
    /\ ret.value \in Keys(callbacks["_volume_change_callbacks"])
    /\ callbacks["_status_callbacks"] = <<>>

----------------------------------------------------------------------------
(* Properties of the connected facade (SpecDevice) *)

SubscriptionFailed ==
    /\ called = "__aenter__"
    /\ \E i \in 1..Len(io) : io[i].op = "disconnect"

\* C13: when one of the four start_notify calls of __aenter__ fails, no
\* subscription of the attempt is left, the facade is not connected, and
\* the caller of __aenter__ gets an exception.
C13_FailedSubscriptionFailsConnect ==
    SubscriptionFailed
    => /\ client.notifying = <<>>
       /\ ~client.is_connected
       /\ ret.exc # "none"

\* The number of bytes of the UTF-8 form of a name
RECURSIVE EncodedLength(_)
EncodedLength(name) ==
    IF name = <<>> THEN 0
    ELSE (IF Head(name) < 128 THEN 1 ELSE IF Head(name) < 2048 THEN 2
          ELSE IF Head(name) < 65536 THEN 3 ELSE 4) + EncodedLength(Tail(name))

\* C19: set_volume outside 0..32 raises InvalidVolume, set_led_brightness
\* outside 0..35 raises InvalidLedBrightness, set_device_name whose encoded
\* length is outside 1..17 raises InvalidDeviceName, and in each of these
\* cases the call makes no transport call at all.
C19_ValidateBeforeTransport ==
    /\ (called = "set_volume" /\ ~(ret.args[1] \in 0..32))
         => (ret.exc = "InvalidVolume" /\ io = <<>>)
    /\ (called = "set_led_brightness" /\ ~(ret.args[1] \in 0..35))
         => (ret.exc = "InvalidLedBrightness" /\ io = <<>>)
    /\ (called = "set_device_name" /\ ~(EncodedLength(ret.args[1]) \in 1..17))
         => (ret.exc = "InvalidDeviceName" /\ io = <<>>)

\* A name of nine characters that encodes to eighteen bytes was refused
\* while the client was connected
C19_Witness ==
    /\ called = "set_device_name"
    /\ client.is_connected
    /\ Len(ret.args[1]) = 9
    /\ EncodedLength(ret.args[1]) = 18
    /\ ret.exc = "InvalidDeviceName"
    /\ io = <<>>

\* The bytes a status notification carried or a status read returned
StatusData ==
    IF called = "_on_status_change" THEN io[1].data ELSE device["control_characteristic"]

SourceOfCode(code) ==
    CASE code = 3 -> "BLUETOOTH" [] code = 1 -> "AUX" [] code = 4 -> "RCA"

PlayStatusOfCode(code) ==
    CASE code = 0 -> "PLAYING" [] code = 1 -> "PAUSED" [] code = 2 -> "STOPPED"

\* C20: for a status notification, or a status read that reached the
\* speaker, of at least four bytes: if byte 0 is not an audio-source status
\* code or byte 1 is not a play-status code the decode fails (the lookup
\* raises KeyError) and a notification invokes no handler; otherwise the
\* Status is (source of byte 0, play status of byte 1, byte 3 = 1), so
\* 03 01 FF 01 gives Status(BLUETOOTH, PAUSED, TRUE).
C20_StatusDecode ==
    (/\ called \in {"_on_status_change", "get_status"}
     /\ ret.exc # "BleakError"
     /\ Len(StatusData) >= 4)
    => IF StatusData[1] \notin {3, 1, 4} \/ StatusData[2] \notin {0, 1, 2}
       THEN ret.exc = "KeyError" /\ invoked = <<>>
       ELSE /\ ret.exc \in {"none", "HandlerRaised"}
            /\ ret.value = [audio_source |-> SourceOfCode(StatusData[1]),
                            play_status |-> PlayStatusOfCode(StatusData[2]),
                            interaction_sound_enabled |-> (StatusData[4] = 1)]
            /\ StatusData = <<3, 1, 255, 1>>
                 => ret.value = Status("BLUETOOTH", "PAUSED", TRUE)

\* 03 01 FF 01 was notified and the registered handler got the Status
C20_Witness ==
    /\ called = "_on_status_change"
    /\ io[1].data = <<3, 1, 255, 1>>
    /\ Len(invoked) = 1
    /\ invoked[1].arg = Status("BLUETOOTH", "PAUSED", TRUE)

\* An unknown source code was notified with a handler registered
C20_WitnessUnknown ==
    /\ called = "_on_status_change"
    /\ io[1].data = <<9, 1, 0, 1>>
    /\ callbacks["_status_callbacks"] # <<>>
    /\ ret.exc = "KeyError"

\* The positions of io at which a notification channel was subscribed
StartNotifyAt == {i \in 1..Len(io) : io[i].op = "start_notify"}

\* C26: an attempt to connect subscribes the channels in the order status,
\* volume, media information, equaliser: the k-th subscription it makes is
\* the one of the k-th channel of that order, so none comes ahead of an
\* earlier one and none is made twice, and the attempt that leaves the
\* facade connected has made all four.
C26_SubscriptionOrder ==
    called = "__aenter__" =>
        LET order == <<"control_characteristic", "volume_characteristic",
                       "media_info_characteristic", "eq_characteristic">>
        IN  /\ Cardinality(StartNotifyAt) <= Len(order)
            /\ \A i \in StartNotifyAt :
                  io[i].char = order[Cardinality({j \in StartNotifyAt : j <= i})]
            /\ client.is_connected =>
                  /\ Cardinality(StartNotifyAt) = Len(order)
                  /\ client.notifying = order

\* An attempt whose third start_notify raised: the calls made were those of
\* the first three channels, and the client was closed
C26_Witness ==
    /\ called = "__aenter__"
    /\ Cardinality(StartNotifyAt) = 3
    /\ io[Len(io)].op = "disconnect"
    /\ ~client.is_connected

----------------------------------------------------------------------------
(* Properties of the command router (SpecRouter) *)

\* The message the last turn of the router handled
LastMessage == ret.args[1]

\* payload is the text of an integer between lo and hi
IntegerWithin(payload, lo, hi) ==
    /\ utf8_decode(payload).exc = "none"
    /\ int(utf8_decode(payload).text).exc = "none"
    /\ int(utf8_decode(payload).text).value \in lo..hi

PresetWords == {<<102, 108, 97, 116>>, <<114, 111, 99, 107>>, <<109, 101, 116, 97, 108>>, <<112, 111, 112>>, <<104, 105, 112, 104, 111, 112>>, <<101, 108, 101, 99, 116, 114, 111, 110, 105, 99>>, <<106, 97, 122, 122>>}

SourceWords == {<<98, 108, 117, 101, 116, 111, 111, 116, 104>>, <<97, 117, 120>>, <<114, 99, 97>>}

ProfileWords(payload) == split_space(utf8_decode(payload).text)

\* The payload of a set command does not decode or does not validate
InvalidPayload(handler, payload) ==
    CASE handler = "set_volume" -> ~IntegerWithin(payload, 0, 32)
      [] handler = "set_led_brightness" -> ~IntegerWithin(payload, 0, 35)
      [] handler = "set_eq_profile_individual" -> ~IntegerWithin(payload, 0, 10)
      [] handler = "set_interaction_sound" ->
           \/ utf8_decode(payload).exc # "none"
           \/ int(utf8_decode(payload).text).exc # "none"
      [] handler = "set_eq_preset" ->
           \/ utf8_decode(payload).exc # "none"
           \/ lower(utf8_decode(payload).text) \notin PresetWords
      [] handler = "set_source" ->
           \/ utf8_decode(payload).exc # "none"
           \/ lower(utf8_decode(payload).text) \notin SourceWords
      [] handler = "set_eq_profile" ->
           \/ utf8_decode(payload).exc # "none"
           \/ Len(ProfileWords(payload)) # 5
           \/ \E i \in 1..Len(ProfileWords(payload)) :
                \/ int(ProfileWords(payload)[i]).exc # "none"
                \/ int(ProfileWords(payload)[i]).value \notin 0..10
      [] handler = "set_device_name" ->
           \/ utf8_decode(payload).exc # "none"
           \/ Len(payload) \notin 1..17
      [] OTHER -> FALSE

\* The last turn routed a set command whose payload is invalid
DroppedCommand ==
    /\ called = "_handle_command"
    /\ Len(ret.value) = 1
    /\ ret.value = <<"set_eq_profile_individual">> => ret.attr # "none"
    /\ InvalidPayload(ret.value[1], LastMessage.payload)

\* C14: a set command whose payload does not decode or validate makes no
\* transport read and no transport write, the per-band equaliser set
\* included.
C14_InvalidPayloadTouchesNoDevice ==
    DroppedCommand => \A i \in 1..Len(io) : io[i].op \notin {"read", "write"}

\* C15: a set command whose payload does not decode or validate publishes
\* nothing, raises nothing out of its handler, and leaves the router taking
\* the next message.
C15_InvalidCommandDroppedAlone ==
    DroppedCommand =>
      /\ published = <<>>
      /\ ret.exc = "none"
      /\ running

PublishesTo(topic_name) ==
    Cardinality({i \in 1..Len(published) : published[i].topic = topic(topic_name)})

\* C16: one notification from the speaker gives one publish per info
\* address of its kind: a volume notification one publish to info/volume, a
\* status notification one to each of the three status addresses, an
\* equaliser notification one to info/eq_profile, to each band address and
\* to info/eq_preset.
C16_OnePublishPerNotification ==
    /\ called = "_on_volume_change" => PublishesTo(<<"info", "volume">>) = 1
    /\ called = "_on_status_change" =>
         /\ PublishesTo(<<"info", "play_status">>) = 1
         /\ PublishesTo(<<"info", "audio_source">>) = 1
         /\ PublishesTo(<<"info", "interaction_sound_enabled">>) = 1
    /\ called = "_on_equalizer_change" =>
         /\ PublishesTo(<<"info", "eq_profile">>) = 1
         /\ PublishesTo(<<"info", "eq_preset">>) = 1
         /\ \A i \in 1..Len(BandNames) :
               PublishesTo(<<"info", "eq_profile", BandNames[i] \o "hz">>) = 1

CommandNames ==
    {"set_volume", "get_volume", "set_eq_preset", "get_eq_preset", "set_eq_profile",
     "get_eq_profile", "set_device_name", "get_device_name", "set_led_brightness",
     "get_led_brightness", "play", "pause", "next", "previous", "set_interaction_sound",
     "get_status", "set_source", "wakeup"}

\* command/enter_pairing_mode is an address of the router only when the
\* router was constructed with allow_pairing
IsCommandAddress(t) ==
    /\ Len(t) = 3 /\ t[1] = "stanmore2" /\ t[2] = "command"
    /\ t[3] \in CommandNames \cup (IF allow_pairing THEN {"enter_pairing_mode"} ELSE {})

BandLevels == {"160hz", "400hz", "1000hz", "2500hz", "6250hz"}

IsBandAddress(t) ==
    /\ Len(t) = 4 /\ t[1] = "stanmore2" /\ t[2] = "command"
    /\ t[3] = "set_eq_profile" /\ t[4] \in BandLevels

\* C17: a message makes the router call at most one handler; at a command
\* address it calls the handler of that command, at one of the five band
\* addresses the per-band handler for that band, and at any other address
\* (a sixth band name included) nothing is read, written or published.
C17_AtMostOneHandler ==
    called = "_handle_command" =>
      /\ Len(ret.value) <= 1
      /\ IsCommandAddress(LastMessage.topic) => ret.value = <<LastMessage.topic[3]>>
      /\ IsBandAddress(LastMessage.topic) =>
           /\ ret.value = <<"set_eq_profile_individual">>
           /\ ret.attr \o "hz" = LastMessage.topic[4]
      /\ (~IsCommandAddress(LastMessage.topic) /\ ~IsBandAddress(LastMessage.topic)) =>
           /\ io = <<>>
           /\ published = <<>>
           /\ ret.attr = "none"

\* A message for a band that does not exist arrived while the speaker was
\* connected, and nothing was done
C17_Witness ==
    /\ called = "_handle_command"
    /\ client.is_connected
    /\ LastMessage.topic = <<"stanmore2", "command", "set_eq_profile", "50hz">>
    /\ io = <<>>
    /\ published = <<>>

BandIndex(level) ==
    CASE level = "160hz" -> 1 [] level = "400hz" -> 2 [] level = "1000hz" -> 3
      [] level = "2500hz" -> 4 [] level = "6250hz" -> 5

PresetLabel(bands) ==
    CASE bands = <<5, 5, 5, 5, 5>> -> <<102, 108, 97, 116>>
      [] bands = <<8, 6, 3, 5, 7>> -> <<114, 111, 99, 107>>
      [] bands = <<8, 3, 5, 7, 8>> -> <<109, 101, 116, 97, 108>>
      [] bands = <<6, 7, 8, 4, 5>> -> <<112, 111, 112>>
      [] bands = <<8, 7, 6, 5, 5>> -> <<104, 105, 112, 104, 111, 112>>
      [] bands = <<7, 4, 4, 7, 6>> -> <<101, 108, 101, 99, 116, 114, 111, 110, 105, 99>>
      [] bands = <<4, 7, 5, 4, 5>> -> <<106, 97, 122, 122>>
      [] OTHER -> <<99, 117, 115, 116, 111, 109>>

Writes(calls) == SelectSeq(calls, LAMBDA c : c.op = "write")

PublishedPayloads(pubs, topic_name) ==
    {pubs[i].payload : i \in {j \in 1..Len(pubs) : pubs[j].topic = topic(topic_name)}}

\* The last turn handled a per-band command with a valid payload and no
\* transport call failed
BandCommandDone ==
    /\ called = "_handle_command"
    /\ IsBandAddress(LastMessage.topic)
    /\ IntegerWithin(LastMessage.payload, 0, 10)
    /\ ret.exc = "none"

Reads(calls) == SelectSeq(calls, LAMBDA c : c.op = "read")

\* C18: a valid per-band command reads the equaliser characteristic, then
\* makes one write, to that characteristic, of the profile just read with
\* the named band replaced by the payload, and then publishes the full
\* profile the speaker holds and the name of the preset it equals, "custom"
\* when it equals none.
C18_BandSetWritesOneBand ==
    BandCommandDone =>
      LET eq_value == int(utf8_decode(LastMessage.payload).text).value
          before == Reads(io)[1].data
          after == [before EXCEPT ![BandIndex(LastMessage.topic[4])] = eq_value]
      IN  /\ io[1] = IoCall("read", "eq_characteristic", before)
          /\ io[2] = IoCall("write", "eq_characteristic", after)
          /\ Len(Writes(io)) = 1
          /\ device["eq_characteristic"] = after
          /\ PublishedPayloads(published, <<"info", "eq_profile">>)
               = {join_space([i \in 1..5 |-> str(after[i])])}
          /\ PublishedPayloads(published, <<"info", "eq_preset">>)
               = {PresetLabel(after)}

\* 7 was set on the 6250 Hz band while the 160 Hz band was at 7 already, and
\* the label published was "custom"
C18_Witness ==
    /\ BandCommandDone
    /\ LastMessage.topic[4] = "6250hz"
    /\ LastMessage.payload = Payloads.seven
    /\ device["eq_characteristic"] = <<7, 5, 5, 5, 7>>
    /\ PublishedPayloads(published, <<"info", "eq_preset">>) = {<<99, 117, 115, 116, 111, 109>>}

\* Five band values, each within 0 and 10
BandsInRange(data) ==
    /\ Len(data) = 5
    /\ \A k \in 1..5 : data[k] \in 0..10

\* The writes of the equaliser characteristic made in the last turn
EqWritesAt == {i \in 1..Len(io) : io[i].op = "write" /\ io[i].char = "eq_characteristic"}

\* C28: whatever commands came before and whatever their payloads, every
\* write of the equaliser characteristic the router makes carries five band
\* values, each within 0 and 10; the profile the speaker holds, which is the
\* one a per-band command reads, stays within that range.
C28_EqWritesInRange ==
    /\ BandsInRange(device["eq_characteristic"])
    /\ \A i \in EqWritesAt : BandsInRange(io[i].data)

\* A per-band command wrote a profile that is not the flat one with one band
\* replaced: the other bands are those an earlier command left
C28_Witness ==
    /\ called = "_handle_command"
    /\ ret.value = <<"set_eq_profile_individual">>
    /\ ret.exc = "none"
    /\ \E i \in EqWritesAt :
          Cardinality({k \in 1..5 : io[i].data[k] # 5}) >= 2

PairingMessage == Message(<<"command", "enter_pairing_mode">>, <<>>)

\* C29: the pairing characteristic is written only by a router constructed
\* with allow_pairing; one constructed without it calls no handler for a
\* message at command/enter_pairing_mode and makes no transport call and no
\* publish for it, whatever was handled before.
C29_PairingOnlyWhenAllowed ==
    /\ (\E i \in 1..Len(io) : io[i].char = "pairing_characteristic") => allow_pairing
    /\ (/\ ~allow_pairing
        /\ called = "_handle_command"
        /\ ret.args = <<PairingMessage>>) =>
          /\ ret.value = <<>>
          /\ ret.exc = "none"
          /\ io = <<>>
          /\ published = <<>>

\* The message was handled by a router without allow_pairing whose speaker
\* was connected
C29_Witness ==
    /\ ~allow_pairing
    /\ called = "_handle_command"
    /\ ret.args = <<PairingMessage>>
    /\ client.is_connected
    /\ io = <<>>

\* C30: the router connects the speaker only when it handles a wakeup
\* command and only when the speaker is not connected: a turn that starts
\* with the speaker connected makes no connect and no start_notify call.
\* (The text of wakeup does not put the entering of the speaker under the
\* test of is_connected: a wakeup handled while connected enters the speaker
\* once more, with a second connect and a second set of subscriptions.)
C30_ConnectsOnlyWhenDisconnected ==
    [][(\E i \in 1..Len(io') : io'[i].op \in {"connect", "start_notify"}) =>
          /\ called' = "_handle_command"
          /\ ret'.value = <<"wakeup">>
          /\ ~client.is_connected]_vars

----------------------------------------------------------------------------
(* Properties of the brightness and name codecs (SpecCodec) *)

\* C22: set_led_brightness(b) with b from 0 to 35 makes one write, of the
\* single byte b + 35, and get_led_brightness on a byte written this way
\* returns the b it was written for.
C22_LedBrightnessRoundTrip ==
    /\ (/\ called = "set_led_brightness"
        /\ ret.args[1] \in 0..35
        /\ client.is_connected) =>
          /\ ret.exc = "none"
          /\ io = <<IoCall("write", "led_brightness_characteristic", <<ret.args[1] + 35>>)>>
          /\ device["led_brightness_characteristic"] = <<ret.args[1] + 35>>
    /\ (called = "get_led_brightness" /\ client.is_connected) =>
          /\ ret.exc = "none"
          /\ ret.value \in 0..35
          /\ device["led_brightness_characteristic"] = <<ret.value + 35>>

\* Brightness 0 was set and read back
C22_Witness ==
    /\ called = "get_led_brightness"
    /\ client.is_connected
    /\ device["led_brightness_characteristic"] = <<35>>
    /\ ret.value = 0

\* The UTF-8 bytes of the characters the names explored are made of
Utf8Bytes(cp) ==
    CASE cp = 233 -> <<195, 169>>
      [] cp = 8364 -> <<226, 130, 172>>
      [] cp = 128512 -> <<240, 159, 152, 128>>
      [] OTHER -> <<cp>>

RECURSIVE Utf8Form(_)
Utf8Form(name) == IF name = <<>> THEN <<>> ELSE Utf8Bytes(Head(name)) \o Utf8Form(Tail(name))

\* C23: set_device_name with a name whose UTF-8 form has L bytes, L from 1
\* to 17, makes one write, of 1, L and the bytes of the form; outside 1 to
\* 17 it raises InvalidDeviceName; and get_device_name on a value written
\* this way returns the name it was written for.
C23_DeviceNameRoundTrip ==
    /\ called = "set_device_name" =>
          LET encoded == Utf8Form(ret.args[1])
          IN  IF Len(encoded) \in 1..17
              THEN client.is_connected =>
                     /\ ret.exc = "none"
                     /\ io = <<IoCall("write", "device_name_characteristic",
                                      <<1, Len(encoded)>> \o encoded)>>
                     /\ device["device_name_characteristic"] = <<1, Len(encoded)>> \o encoded
              ELSE ret.exc = "InvalidDeviceName"
    /\ (called = "get_device_name" /\ client.is_connected) =>
          /\ ret.exc = "none"
          /\ Len(Utf8Form(ret.value)) \in 1..17
          /\ device["device_name_characteristic"]
               = <<1, Len(Utf8Form(ret.value))>> \o Utf8Form(ret.value)

\* A name of five three-byte characters and one two-byte character, 17
\* bytes in all, was set and read back
C23_Witness ==
    /\ called = "get_device_name"
    /\ client.is_connected
    /\ ret.value = <<8364, 8364, 8364, 8364, 8364, 233>>
    /\ Len(device["device_name_characteristic"]) = 19

----------------------------------------------------------------------------
(* Properties of preset matching (SpecEq) *)

\* The bands of the seven presets, by name
PresetBands ==
    [FLAT |-> <<5, 5, 5, 5, 5>>, ROCK |-> <<8, 6, 3, 5, 7>>, METAL |-> <<8, 3, 5, 7, 8>>,
     POP |-> <<6, 7, 8, 4, 5>>, HIPHOP |-> <<8, 7, 6, 5, 5>>,
     ELECTRONIC |-> <<7, 4, 4, 7, 6>>, JAZZ |-> <<4, 7, 5, 4, 5>>]

\* C21: get_equaliser_preset returns the preset whose five bands equal the
\* bands the speaker holds and None when no preset has these bands, and the
\* get_eq_preset command publishes the lower-case name of that preset, or
\* "custom" when there is none.
C21_PresetMatchedByValue ==
    LET held == device["eq_characteristic"]
        equal == {m \in DOMAIN PresetBands : PresetBands[m] = held}
    IN  /\ (called = "get_equaliser_preset" /\ ret.exc = "none") =>
              /\ \A m \in equal : ret.value = m
              /\ equal = {} => ret.value = "None"
        /\ (/\ called = "_handle_command"
            /\ ret.value = <<"get_eq_preset">>
            /\ ret.exc = "none") =>
              /\ PublishedPayloads(published, <<"info", "eq_preset">>) = {PresetLabel(held)}
              /\ equal = {} => published[1].payload = <<99, 117, 115, 116, 111, 109>>

\* The speaker holds ROCK with its lowest band one step down, which has the
\* lowest band of ELECTRONIC, and the preset read back is None
C21_Witness ==
    /\ called = "get_equaliser_preset"
    /\ ret.exc = "none"
    /\ device["eq_characteristic"] = <<7, 6, 3, 5, 7>>
    /\ ret.value = "None"

----------------------------------------------------------------------------
(* Properties of the message loop and the settle delay (SpecSettle) *)

\* The set commands explored with a payload that decodes and validates, the
\* characteristic each writes and the address the value read back goes to
ValidSets ==
    {[msg |-> Message(<<"command", "set_volume">>, <<55>>),
      char |-> "volume_characteristic", info |-> <<"info", "volume">>],
     [msg |-> Message(<<"command", "set_eq_preset">>, <<102, 108, 97, 116>>),
      char |-> "eq_characteristic", info |-> <<"info", "eq_preset">>],
     [msg |-> Message(<<"command", "set_eq_profile">>, <<53, 32, 53, 32, 53, 32, 53, 32, 53>>),
      char |-> "eq_characteristic", info |-> <<"info", "eq_profile">>],
     [msg |-> Message(<<"command", "set_eq_profile", "160hz">>, <<55>>),
      char |-> "eq_characteristic", info |-> <<"info", "eq_profile", "160hz">>],
     [msg |-> Message(<<"command", "set_device_name">>, <<83>>),
      char |-> "device_name_characteristic", info |-> <<"info", "device_name">>],
     [msg |-> Message(<<"command", "set_led_brightness">>, <<51, 53>>),
      char |-> "led_brightness_characteristic", info |-> <<"info", "led_brightness">>],
     [msg |-> Message(<<"command", "set_interaction_sound">>, <<49>>),
      char |-> "control_characteristic", info |-> <<"info", "interaction_sound_enabled">>],
     [msg |-> Message(<<"command", "set_source">>, <<98, 108, 117, 101, 116, 111, 111, 116, 104>>),
      char |-> "control_characteristic", info |-> <<"info", "audio_source">>]}

\* The handler of a valid set command is in its settle delay: its last two
\* calls were the write and the sleep, it wrote once, and it has read
\* nothing back and published nothing
SettleOrder(v) ==
    /\ Len(io) >= 2
    /\ io[Len(io)].op = "sleep"
    /\ io[Len(io) - 1].op = "write" /\ io[Len(io) - 1].char = v.char
    /\ \A i \in 1..(Len(io) - 2) : io[i].op = "read"
    /\ Len(io) > 2 => v.info = <<"info", "eq_profile", "160hz">>
    /\ published = <<>>

\* The handler of a valid set command has returned: what it did last was to
\* read the characteristic back, after the delay, and to publish; it wrote
\* nothing and did not sleep again; and the value of the command is on its
\* info address
ReadBackOrder(v) ==
    /\ io # <<>>
    /\ io[1].op = "read" /\ io[1].char = v.char
    /\ \A i \in 1..Len(io) : io[i].op \in {"read", "publish"}
    /\ io[Len(io)].op = "publish"
    /\ PublishedPayloads(published, v.info) = {v.msg.payload}

Settling(v) == handling # <<>> /\ Head(handling).msg = v.msg

Returned(v) ==
    /\ called = "_handle_command"
    /\ ret.op = "command"
    /\ ret.args = <<v.msg>>
    /\ ret.exc = "none"

\* C24: a set command with a valid payload writes, then sleeps, and only
\* after the sleep reads the value back and publishes it on its info
\* address: a command suspended has written and then slept and has not read
\* back or published; the step that ends its suspension is its return, with
\* the read-back and the publish done; and every suspension ends.
C24_WriteSettleReadPublish ==
    /\ [](\A v \in ValidSets :
            /\ (ret.op = "settle" /\ ret.args = <<v.msg>>) => SettleOrder(v)
            /\ Returned(v) => ReadBackOrder(v))
    /\ [][\A v \in ValidSets :
              (Settling(v) /\ handling' # handling) => (Returned(v) /\ ReadBackOrder(v))']_vars
    /\ (handling # <<>>) ~> (handling = <<>>)

\* The per-band command has returned, its 7 published on the address of the
\* band
C24_Witness ==
    \E v \in ValidSets :
        /\ v.info = <<"info", "eq_profile", "160hz">>
        /\ Returned(v)
        /\ ReadBackOrder(v)

\* C25: while a set handler is in its settle delay a volume notification
\* can be delivered, and one delivered then has run every registered
\* handler and scheduled their publishes, the set handler still suspended.
C25_NotificationDuringSettle ==
    /\ (/\ handling # <<>>
        /\ InSeq("volume_characteristic", client.notifying))
         => ENABLED on_volume_change(<<16>>)
    /\ (called = "_on_volume_change" /\ handling # <<>>) =>
          /\ Len(invoked) = Len(callbacks["_volume_change_callbacks"])
          /\ published # <<>>
          /\ \A i \in 1..Len(published) :
                /\ published[i].scheduled
                /\ published[i].topic = <<"stanmore2", "info", "volume">>
                /\ published[i].payload = <<49, 54>>

\* A volume notification was delivered while set_volume was in its delay
C25_Witness ==
    /\ called = "_on_volume_change"
    /\ handling # <<>>
    /\ Head(handling).handler = "set_volume"
    /\ invoked # <<>>
    /\ published # <<>>

\* C27: at most one handler is in progress, and the loop takes a message
\* only when no handler is in progress; the message it takes is the one
\* that arrived first among those waiting.
C27_OneCommandAtATime ==
    /\ [](Len(handling) <= 1)
    /\ [][Len(inbox') < Len(inbox) =>
            /\ handling = <<>>
            /\ inbox' = Tail(inbox)
            /\ ret'.args = <<Head(inbox)>>]_vars

\* A message arrived while a handler was in its settle delay, and waits
C27_Witness ==
    /\ called = "messages.put"
    /\ handling # <<>>
    /\ inbox # <<>>

----------------------------------------------------------------------------
(* Properties of the media-info reassembler (SpecMedia) *)

SentinelIn(data) == Occurrences(data, media_info_ending_bytes) # {}

MarkerIn(data, field_id) == Occurrences(data, FieldMarker(field_id)) # {}

\* Field extraction as specified: None when the marker is absent, otherwise
\* the text that follows the first marker.
FindField(data, field_id) ==
    IF ~MarkerIn(data, field_id) THEN [exc |-> "none", text |-> None]
    ELSE decode_index(data, bytes_index(data, FieldMarker(field_id)).pos)

Extractable(data) == \A f \in 1..3 : FindField(data, f).exc = "none"

SpecifiedInfo(data) ==
    MediaInfo(FindField(data, 1).text, FindField(data, 2).text, FindField(data, 3).text)

\* C4: after a chunk is appended, the message is handled exactly when the
\* last 8 bytes of the accumulated buffer are the sentinel, however the
\* bytes were split into chunks.
C4_CompleteIffBufferEndsWithSentinel ==
    ret.op = "media_info" =>
        (ret.handled <=> LastBytes(appended, 8) = media_info_ending_bytes)

\* C5: in a completed message with a field marker absent, that field is
\* None and the fields that are present are still extracted and dispatched
\* once to every registered handler.
C5_AbsentFieldIsNone ==
    (/\ ret.op = "media_info"
     /\ ret.handled
     /\ MarkerIn(appended, 1)
     /\ \E f \in 1..3 : ~MarkerIn(appended, f)
     /\ Extractable(appended)) =>
        /\ ret.value = SpecifiedInfo(appended)
        /\ NoRaiser(callbacks["_media_info_callbacks"]) =>
              invoked = EachOnce(callbacks["_media_info_callbacks"], SpecifiedInfo(appended))

\* C6: after every handling attempt the reassembly buffer is empty, whether
\* the attempt succeeded, the extraction raised or a handler raised.
C6_BufferEmptyAfterAttempt ==
    (ret.op = "media_info" /\ ret.handled) => media_info_buffer = <<>>

C6_Witness ==
    /\ ret.op = "media_info"
    /\ ret.handled
    /\ ret.exc = "HandlerRaised"
    /\ media_info_buffer = <<>>

\* C7: while the sentinel has not appeared in the chunks received, no
\* media-info handler is invoked and the buffer is the concatenation of all
\* chunks received.
C7_NoSentinelNoDispatch ==
    ~SentinelIn(received) =>
        /\ media_info_buffer = received
        /\ ret.op = "media_info" => (~ret.handled /\ invoked = <<>>)

C7_Witness ==
    /\ ret.op = "media_info"
    /\ ~SentinelIn(received)
    /\ Len(received) >= 2 * Len(ChunkAlbumEndingHead)
    /\ callbacks["_media_info_callbacks"] # <<>>
    /\ media_info_buffer = received

\* Well-formed messages: field records followed by the sentinel
WellFormedMessages ==
    {ChunkTitleArtist \o ChunkAlbum \o ChunkEnding,
     ChunkHelloArtist \o ChunkEnding}

\* C8: each completed well-formed message makes every registered media-info
\* handler run exactly once, with the MediaInfo of the chunks received after
\* the previous handling attempt.
C8_OneDispatchPerMessage ==
    (/\ ret.op = "media_info"
     /\ message \in WellFormedMessages
     /\ NoRaiser(callbacks["_media_info_callbacks"])) =>
        invoked = EachOnce(callbacks["_media_info_callbacks"], SpecifiedInfo(message))

TypeOK ==
    /\ \A a \in Attrs : \A i \in 1..Len(callbacks[a]) :
          /\ callbacks[a][i].id \in 1..MaxId
          /\ callbacks[a][i].cb \in Handlers \cup {HandlerOf(a)}
    /\ \A a \in Attrs : issued[a] \subseteq 1..MaxId

====
